---- MODULE Spec2Model ----
(***************************************************************************)
(* Model of SplunkObservableExporter (src/export_to_aws.py):               *)
(* export_to_dynamodb, the per-observation read / merge / write loop       *)
(* against the DynamoDB table observable_catalog, and main / run_export,   *)
(* which run the search and the DynamoDB, S3 and RDS export steps.         *)
(*                                                                         *)
(* Specifications.  Spec, SpecBounds and SpecCollide run the loop of       *)
(* export_to_dynamodb on three workloads; SpecMain runs main; SpecDual     *)
(* feeds DynamoDB and PostgreSQL with the same batches; SpecRace           *)
(* interleaves the iterations of two runs; SpecScan runs the scan loop of  *)
(* get_merged_data_from_dynamodb page by page and the master upload that   *)
(* follows it; SpecRds exports batches with rows PostgreSQL rejects;       *)
(* SpecLambda runs lambda_handler (src/lambda_function.py).                *)
(*                                                                         *)
(* Time.  An instant is an integer number of TimeUnit-second ticks since   *)
(* 2024-01-01T00:00:00.  One tick is 288 s, a third of 0.01 day, so        *)
(* round(seconds / 86400, 2) is a genuine rounding (never a tie) and is    *)
(* computed exactly on integers; days_seen is held in hundredths of a day. *)
(*                                                                         *)
(* Timestamp strings.  A string handed to parse_iso_timestamp is a record  *)
(*   [k, t, tz, iso]:  k = "empty" (the string ''), "bad" (a non-empty     *)
(* string datetime.fromisoformat rejects) or "ts" (a string it accepts,    *)
(* denoting instant t; tz = it carries a UTC offset, so the datetime is    *)
(* offset-aware; iso = it is spelled the way datetime.isoformat() spells   *)
(* it, e.g. '2024-01-05T00:00:00Z' but not the date-only '2024-01-05').    *)
(***************************************************************************)
EXTENDS Integers, Sequences, FiniteSets, TLC

(***************************************************************************)
(* Bounds of the model                                                     *)
(***************************************************************************)
\* total number of loop iterations (observations processed) over all runs
MaxOps == 2
\* number of clock ticks the wall clock may advance during the exploration
MaxTicks == 1
\* number of runs of main
MaxRuns == 1

(***************************************************************************)
(* Program constants                                                       *)
(***************************************************************************)
\* ticks per day: 86400 seconds / 288 seconds
TicksPerDay == 300
\* ticks per 0.01 day (the rounding quantum of round(.., 2)): 864 s / 288 s
TicksPerCentiDay == 3
\* DYNAMODB_TTL_DAYS default
TtlDays == 90

(***************************************************************************)
(* Option values: None is Python's None, Some(x) a present value           *)
(***************************************************************************)
None == << >>
Some(x) == << x >>
IsSome(o) == o # << >>
Get(o) == o[1]

(***************************************************************************)
(* Timestamp strings                                                       *)
(***************************************************************************)
EmptyStr == [k |-> "empty", t |-> 0, tz |-> FALSE, iso |-> FALSE]
Garbage == [k |-> "bad", t |-> 0, tz |-> FALSE, iso |-> FALSE]
\* 'YYYY-MM-DDT00:00:00Z' on day d (0 = 2024-01-01)
ZStamp(d) == [k |-> "ts", t |-> d * TicksPerDay, tz |-> TRUE, iso |-> TRUE]
\* the date-only string 'YYYY-MM-DD': parses to a naive midnight
DateOnly(d) == [k |-> "ts", t |-> d * TicksPerDay, tz |-> FALSE, iso |-> FALSE]

\* the wall clock at Init: 2024-01-21T00:04:48
NowStart == 20 * TicksPerDay + 1
MaxNow == NowStart + MaxTicks

(***************************************************************************)
(* Pure helpers of export_to_dynamodb                                      *)
(***************************************************************************)
\* faulty variant of composite_key: the separator is left out
composite_key_no_separator(indicator_type, indicator) ==
    indicator_type \o indicator

\* f"{indicator_type}#{indicator}"
composite_key(indicator_type, indicator) == indicator_type \o "#" \o indicator

\* parse_iso_timestamp: the datetime of a string fromisoformat accepts,
\* None for '' and for any string it rejects (the bare except)
parse_iso_timestamp(ts_str) ==
    IF ts_str.k = "ts" THEN Some([t |-> ts_str.t, tz |-> ts_str.tz]) ELSE None

\* datetime.isoformat().replace('+00:00', 'Z'): the canonical spelling
isoformat(dt) == [k |-> "ts", t |-> dt.t, tz |-> dt.tz, iso |-> TRUE]

\* datetime.now().isoformat() + 'Z' read when the clock shows c
now_string(c) == [k |-> "ts", t |-> c, tz |-> TRUE, iso |-> TRUE]

\* comparing or subtracting an offset-naive and an offset-aware datetime
\* raises TypeError
Incomparable(a, b) == a.tz # b.tz

\* round(seconds / 86400, 2), in hundredths of a day, for a difference of
\* d ticks: the nearest integer to d / 3 (d / 3 is never a tie)
round2_days(d) == (d + 1) \div TicksPerCentiDay

\* (final_last_ts - final_first_ts) rounded, lines 341 and 352
days_between(first_ts, last_ts) == round2_days(last_ts.t - first_ts.t)

min_ts(a, b) == IF b.t < a.t THEN b ELSE a
max_ts(a, b) == IF b.t > a.t THEN b ELSE a

(***************************************************************************)
(* The merge of one observation, lines 304-354.  existing is None or       *)
(* Some(stored item) as get_item returned it; c1 and c2 are the clock      *)
(* readings of the two datetime.now() fallbacks.  The result says whether  *)
(* the computation raised and, if not, the values to be written.           *)
(***************************************************************************)
\* faulty variant of merged_first_seen: the stored bound wins whenever it
\* parses, without taking the minimum
merged_first_seen_keep(existing_first_seen, new_first_seen, c) ==
    LET e == parse_iso_timestamp(existing_first_seen)
        n == parse_iso_timestamp(new_first_seen)
    IN  IF IsSome(e) THEN existing_first_seen
        ELSE IF IsSome(n) THEN new_first_seen
        ELSE now_string(c)

\* lines 318-325: final_first_seen when an aggregate was read
merged_first_seen(existing_first_seen, new_first_seen, c) ==
    LET e == parse_iso_timestamp(existing_first_seen)
        n == parse_iso_timestamp(new_first_seen)
    IN  IF IsSome(e) /\ IsSome(n) THEN isoformat(min_ts(Get(e), Get(n)))
        ELSE IF IsSome(e) THEN existing_first_seen
        ELSE IF IsSome(n) THEN new_first_seen
        ELSE now_string(c)

\* lines 327-334: final_last_seen when an aggregate was read
merged_last_seen(existing_last_seen, new_last_seen, c) ==
    LET e == parse_iso_timestamp(existing_last_seen)
        n == parse_iso_timestamp(new_last_seen)
    IN  IF IsSome(e) /\ IsSome(n) THEN isoformat(max_ts(Get(e), Get(n)))
        ELSE IF IsSome(e) THEN existing_last_seen
        ELSE IF IsSome(n) THEN new_last_seen
        ELSE now_string(c)

\* min() / max() of lines 319 and 328 raise on a naive/aware pair
BothParseIncomparable(s1, s2) ==
    LET a == parse_iso_timestamp(s1)
        b == parse_iso_timestamp(s2)
    IN  IsSome(a) /\ IsSome(b) /\ Incomparable(Get(a), Get(b))

\* faulty variant of created_first_seen: the clock is written whatever the
\* observation carries
created_first_seen_now(new_first_seen, c) == now_string(c)

\* lines 345-346: the bounds written when no aggregate was read
created_first_seen(new_first_seen, c) ==
    IF new_first_seen.k # "empty" THEN new_first_seen ELSE now_string(c)

created_last_seen(new_last_seen, c) ==
    IF new_last_seen.k # "empty" THEN new_last_seen ELSE now_string(c)

\* the total_hits field of a row is text: a text int() accepts is held as
\* the integer it denotes (an absent field as item.get's default 0), a text
\* int() rejects ('', 'abc', '12.5') as NotNumeric
NotNumeric == 0 - 1

\* line 306: int(item.get('total_hits', 0)) raises ValueError
int_raises(total_hits) == total_hits = NotNumeric

\* faulty variant of merged_total_hits: the larger of the stored and the
\* incoming count is kept
merged_total_hits_max(existing, new_total_hits) ==
    IF IsSome(existing) /\ Get(existing).total_hits > new_total_hits
    THEN Get(existing).total_hits
    ELSE new_total_hits

\* faulty variant of merged_total_hits: the incoming count replaces the
\* stored one
merged_total_hits_reset(existing, new_total_hits) == new_total_hits

\* lines 336 and 347
merged_total_hits(existing, new_total_hits) ==
    IF IsSome(existing) THEN Get(existing).total_hits + new_total_hits
    ELSE new_total_hits

\* faulty variant of final_days_seen: days_seen of the incoming
\* observation's own bounds when these parse
final_days_seen_incoming(existing, item, final_first_seen, final_last_seen) ==
    LET f == parse_iso_timestamp(item.first_seen)
        l == parse_iso_timestamp(item.last_seen)
    IN  IF IsSome(f) /\ IsSome(l) THEN days_between(Get(f), Get(l))
        ELSE IF IsSome(existing) THEN 0
        ELSE item.days_seen

\* lines 338-343 and 349-354: days_seen from the final bounds
final_days_seen(existing, item, final_first_seen, final_last_seen) ==
    LET f == parse_iso_timestamp(final_first_seen)
        l == parse_iso_timestamp(final_last_seen)
    IN  IF IsSome(f) /\ IsSome(l) THEN days_between(Get(f), Get(l))
        ELSE IF IsSome(existing) THEN 0
        ELSE item.days_seen

merge(existing, item, c1, c2) ==
    LET ffs == IF IsSome(existing)
               THEN merged_first_seen(Get(existing).first_seen, item.first_seen, c1)
               ELSE created_first_seen(item.first_seen, c1)
        fls == IF IsSome(existing)
               THEN merged_last_seen(Get(existing).last_seen, item.last_seen, c2)
               ELSE created_last_seen(item.last_seen, c2)
        raised ==
            \/ int_raises(item.total_hits)
            \/ /\ IsSome(existing)
               /\ \/ BothParseIncomparable(Get(existing).first_seen, item.first_seen)
                  \/ BothParseIncomparable(Get(existing).last_seen, item.last_seen)
            \/ BothParseIncomparable(ffs, fls)
    IN  [raised |-> raised,
         first_seen |-> ffs,
         last_seen |-> fls,
         total_hits |-> merged_total_hits(existing, item.total_hits),
         days_seen |-> IF raised THEN 0
                       ELSE final_days_seen(existing, item, ffs, fls)]

(***************************************************************************)
(* Observations (rows of the search result) and stored items               *)
(***************************************************************************)
\* the multi-valued attributes export_to_dynamodb writes, lines 380-418
MultiValued == {"types", "src_ips", "dest_ips", "users", "sourcetypes", "actions"}

NoAttrs == [a \in MultiValued |-> {}]

\* a row: absent fields take item.get's defaults ('' / 0 / no list)
Row(indicator, indicator_type, first_seen, last_seen, total_hits, src_ips) ==
    [indicator |-> indicator, indicator_type |-> indicator_type,
     first_seen |-> first_seen, last_seen |-> last_seen,
     total_hits |-> total_hits, days_seen |-> 0,
     attrs |-> [NoAttrs EXCEPT !["src_ips"] = src_ips]]

\* faulty variant of Malformed: only the indicator is looked at
Malformed_indicator_only(item) == item.indicator = ""

\* line 268: if not indicator or not indicator_type: continue
Malformed(item) == item.indicator = "" \/ item.indicator_type = ""

KeyOf(item) == composite_key(item.indicator_type, item.indicator)

(***************************************************************************)
(* The DynamoDB table: a partial map from indicator_key to the stored item *)
(***************************************************************************)
\* get_item on a reachable store: None when the response has no 'Item'
get_item(tbl, key) == IF key \in DOMAIN tbl THEN Some(tbl[key]) ELSE None

\* faulty variant of set_attribute: only the members not stored yet are
\* written
set_attribute_delta(stored, incoming) ==
    IF incoming # {} THEN incoming \ stored ELSE stored

\* faulty variant of set_attribute: the attribute is set to the incoming
\* list even when that list is absent or empty
set_attribute_clear(stored, incoming) == incoming

\* 'SET a = :a, ...' of lines 356-430 applied by update_item (an upsert):
\* the scalar attributes are always set; a multi-valued attribute is set
\* only when the row carries a non-empty list for it, and is then replaced
\* by that list; every other stored attribute is left as it is
set_attribute(stored, incoming) == IF incoming # {} THEN incoming ELSE stored

\* faulty variant of update_item: indicator and indicator_type of a stored
\* item are not written again
update_item_keep_identity(tbl, key, item, m, c) ==
    LET old == IF key \in DOMAIN tbl THEN tbl[key].attrs ELSE NoAttrs
        new == [indicator |-> IF key \in DOMAIN tbl THEN tbl[key].indicator
                              ELSE item.indicator,
                indicator_type |-> IF key \in DOMAIN tbl
                                   THEN tbl[key].indicator_type
                                   ELSE item.indicator_type,
                first_seen |-> m.first_seen,
                last_seen |-> m.last_seen,
                total_hits |-> m.total_hits,
                days_seen |-> m.days_seen,
                attrs |-> [a \in MultiValued |->
                              set_attribute(old[a], item.attrs[a])],
                export_timestamp |-> now_string(c),
                ttl |-> c + TtlDays * TicksPerDay]
    IN  [k \in DOMAIN tbl \cup {key} |-> IF k = key THEN new ELSE tbl[k]]

\* faulty variant of update_item: the table is left with the written
\* item alone
update_item_only(tbl, key, item, m, c) ==
    LET old == IF key \in DOMAIN tbl THEN tbl[key].attrs ELSE NoAttrs
        new == [indicator |-> item.indicator,
                indicator_type |-> item.indicator_type,
                first_seen |-> m.first_seen,
                last_seen |-> m.last_seen,
                total_hits |-> m.total_hits,
                days_seen |-> m.days_seen,
                attrs |-> [a \in MultiValued |->
                              set_attribute(old[a], item.attrs[a])],
                export_timestamp |-> now_string(c),
                ttl |-> c + TtlDays * TicksPerDay]
    IN  [k \in {key} |-> new]

update_item(tbl, key, item, m, c) ==
    LET old == IF key \in DOMAIN tbl THEN tbl[key].attrs ELSE NoAttrs
        new == [indicator |-> item.indicator,
                indicator_type |-> item.indicator_type,
                first_seen |-> m.first_seen,
                last_seen |-> m.last_seen,
                total_hits |-> m.total_hits,
                days_seen |-> m.days_seen,
                attrs |-> [a \in MultiValued |->
                              set_attribute(old[a], item.attrs[a])],
                export_timestamp |-> now_string(c),
                ttl |-> c + TtlDays * TicksPerDay]
    IN  [k \in DOMAIN tbl \cup {key} |-> IF k = key THEN new ELSE tbl[k]]

(***************************************************************************)
(* Input domains                                                           *)
(***************************************************************************)
Indicators == {"1.2.3.4", "8.8.8.8"}
IndicatorTypes == {"ip"}

\* two identities, <<indicator_type, indicator>>, that carry the separator
\* '#' of line 271 in a component
CollideIdentities == {<<"a", "b#c">>, <<"a#b", "c">>}

Keys ==
    {composite_key(it, i) : it \in IndicatorTypes, i \in Indicators}
    \cup {composite_key(p[1], p[2]) : p \in CollideIdentities}

FirstSeenValues == {EmptyStr, Garbage, ZStamp(0), ZStamp(4), DateOnly(4)}
LastSeenValues == {EmptyStr, Garbage, ZStamp(9), ZStamp(14)}
HitsValues == {2, 40}
SrcIpsValues == {{}, {"A", "B"}, {"B", "C"}}

\* workload varying the counters and the multi-valued attributes of two
\* identities, all rows carrying the window [2024-01-01Z, 2024-01-10Z],
\* with one row lacking its indicator and one lacking its indicator_type
SetRows ==
    {Row(i, "ip", ZStamp(0), ZStamp(9), th, sip) :
        i \in Indicators, th \in HitsValues, sip \in SrcIpsValues}
    \cup {Row("", "ip", ZStamp(0), ZStamp(9), 2, {"A", "B"}),
          Row("1.2.3.4", "", ZStamp(0), ZStamp(9), 2, {"A", "B"})}

\* workload varying the time bounds of the rows of one identity, with one
\* row lacking its indicator, one whose total_hits is not a number, and one
\* that declares days_seen = 5.0 next to bounds that do not parse
BoundRows ==
    {Row("1.2.3.4", "ip", fs, ls, 2, {}) :
        fs \in FirstSeenValues, ls \in LastSeenValues}
    \cup {Row("", "ip", ZStamp(0), ZStamp(9), 2, {}),
          Row("1.2.3.4", "ip", ZStamp(0), ZStamp(9), NotNumeric, {}),
          [Row("1.2.3.4", "ip", Garbage, Garbage, 2, {})
              EXCEPT !.days_seen = 5 * 100]}

\* workload of rows of the identities of CollideIdentities
CollideRows ==
    {Row(p[2], p[1], ZStamp(0), ZStamp(9), th, {"A", "B"}) :
        p \in CollideIdentities, th \in HitsValues}

\* the row whose aggregate a previous run may have left in the table:
\* {total_hits: 40, first_seen: 2024-01-01, last_seen: 2024-01-10,
\*  src_ips: {A, B}}
SeedRow == Row("1.2.3.4", "ip", ZStamp(0), ZStamp(9), 40, {"A", "B"})

(***************************************************************************)
(* State                                                                   *)
(***************************************************************************)
VARIABLES
    table,      \* the DynamoDB table
    pc,         \* "idle"; "loop": at the head of the for loop of line 264;
                \* "iterated": an iteration has ended (continue of line 269,
                \* or update_item of line 444 returned); "raised": the call
                \* ended in the except clause of lines 448-450
    idx,        \* rows of data the running call has consumed
    now,        \* the wall clock, in ticks
    ops,        \* rows consumed over all runs (bounded by MaxOps)
    last,       \* the iteration in progress: its row, what it read, its
                \* outcome and the requests it issued (None between
                \* iterations)
    contrib,    \* history: per key, the observations written so far
    cfg,        \* which backends connect_aws / the configuration provide
    rpc,        \* run_export: "none" (no run in progress), or the export
                \* step the run has reached: "dynamodb", "s3", "rds"
    fmt,        \* export_format of the run in progress
    data,       \* the rows the search of the run in progress returned
    s3,         \* the S3 bucket: a partial map from object key to object
    rds,        \* the PostgreSQL table observable_catalog
    status,     \* how the last run of main ended, if any: its exit status
                \* and the step of run_export at which it ended
    s3_log,     \* history: the upload_file requests S3 accepted
    runs,       \* number of runs of main started
    workers,    \* concurrent runs of export_to_dynamodb: per run, where it
                \* is in the iteration of its row and what get_item gave it
    scan,       \* the scan loop of get_merged_data_from_dynamodb: its
                \* position, last_evaluated_key and merged_data
    invocation  \* lambda_handler: how its last invocation ended

\* (fmt and data are the arguments and locals of the run in progress;
\* between runs they hold 'all' and [])

\* the state of export_to_dynamodb and of the DynamoDB table
dbvars == <<table, pc, idx, now, ops, last, contrib>>

\* the state of run_export and of the other stores
runvars == <<cfg, rpc, fmt, data, s3, rds, status, s3_log, runs>>

\* the state of concurrent runs, of the scan loop and of lambda_handler
concvars == <<workers, scan, invocation>>

vars == <<table, pc, idx, now, ops, last, contrib,
          cfg, rpc, fmt, data, s3, rds, status, s3_log, runs,
          workers, scan, invocation>>

\* no observation written yet: Infinity is later, and -Infinity earlier,
\* than every instant of the model
Infinity == 1000 * TicksPerDay

NoContrib == [hits |-> 0, first |-> Infinity, last |-> 0 - Infinity,
              parseable |-> TRUE, reads_ok |-> TRUE]

Min(a, b) == IF a <= b THEN a ELSE b
Max(a, b) == IF a >= b THEN a ELSE b

\* history bookkeeping of one successful write of item under its key
Contribute(c, item, read_ok) ==
    LET f == parse_iso_timestamp(item.first_seen)
        l == parse_iso_timestamp(item.last_seen)
        p == IsSome(f) /\ IsSome(l)
    IN  [hits |-> c.hits + item.total_hits,
         first |-> IF p THEN Min(c.first, Get(f).t) ELSE c.first,
         last |-> IF p THEN Max(c.last, Get(l).t) ELSE c.last,
         parseable |-> c.parseable /\ p,
         reads_ok |-> c.reads_ok /\ read_ok]

\* the table is empty (freshly created), or holds the aggregate an earlier
\* failure-free export of SeedRow wrote, one day before the clock's start
SeedClock == NowStart - TicksPerDay

SeededTable ==
    update_item(<< >>, KeyOf(SeedRow), SeedRow,
                merge(None, SeedRow, SeedClock, SeedClock), SeedClock)

\* every backend is configured
FullConfig == [dynamodb |-> TRUE, s3 |-> TRUE, rds |-> TRUE]

\* the DynamoDB side after construction
InitTable ==
    /\ \/ /\ table = << >>
          /\ contrib = [k \in Keys |-> NoContrib]
       \/ /\ table = SeededTable
          /\ contrib = [k \in Keys |->
                          IF k = KeyOf(SeedRow)
                          THEN Contribute(NoContrib, SeedRow, TRUE)
                          ELSE NoContrib]
    /\ pc = "idle"
    /\ idx = 0
    /\ now = NowStart
    /\ ops = 0
    /\ last = None

\* two runs of the exporter that may overlap
Workers == {1, 2}

\* a run that is not inside an iteration of the for loop of line 264
IdleWorker ==
    [pc |-> "idle", item |-> None, existing |-> None,
     read_at |-> 0, wrote_at |-> 0]

\* lines 629-631: merged_data = [], last_evaluated_key = None; pages counts
\* the scan requests answered
NoScan ==
    [pc |-> "idle", last_evaluated_key |-> None, merged_data |-> << >>,
     pages |-> 0]

\* lambda_handler has not been invoked
NoInvocation == [pc |-> "none", statusCode |-> 0, body |-> ""]

\* no run of main has started; the PostgreSQL table does not exist yet; no
\* concurrent run and no scan is in progress
InitRun ==
    /\ workers = [w \in Workers |-> IdleWorker]
    /\ scan = NoScan
    /\ invocation = NoInvocation
    /\ rpc = "none"
    /\ fmt = "all"
    /\ data = << >>
    /\ rds = << >>
    /\ status = None
    /\ s3_log = << >>
    /\ runs = 0

\* an exporter with every backend configured, as the tests build it, and
\* an empty bucket
Init == InitTable /\ InitRun /\ cfg = FullConfig /\ s3 = << >>

(***************************************************************************)
(* export_to_dynamodb                                                      *)
(***************************************************************************)
\* lines 254-263: the call starts on a batch data (client configured)
StartExport ==
    /\ pc \in {"idle", "raised"}
    /\ pc' = "loop"
    /\ idx' = 0
    /\ last' = None
    /\ UNCHANGED <<table, now, ops, contrib>>
    /\ UNCHANGED runvars
    /\ UNCHANGED concvars

\* lines 264-269: a row without indicator or indicator_type is skipped
SkipRow(item) ==
    /\ Malformed(item)
    /\ idx' = idx + 1
    /\ ops' = ops + 1
    /\ last' = Some([kind |-> "skipped", item |-> item, key |-> "",
                     read_ok |-> TRUE, existing |-> None, before |-> None,
                     requests |-> << >>])
    /\ pc' = "iterated"
    /\ UNCHANGED <<table, now, contrib>>
    /\ UNCHANGED runvars
    /\ UNCHANGED concvars

\* the table after a row was read, merged and written without a raise
written_table(tbl, item, read_ok, c1, c2) ==
    LET key == KeyOf(item)
        existing == IF read_ok THEN get_item(tbl, key) ELSE None
    IN  update_item(tbl, key, item, merge(existing, item, c1, c2), c2)

\* lines 263-446: the table a whole call leaves when every get_item and
\* update_item succeeds and the clock shows c throughout; a raise in the
\* merge of a row ends the call with the rows before it written
RECURSIVE export_batch(_, _, _)
export_batch(tbl, batch, c) ==
    IF batch = << >> THEN tbl
    ELSE LET item == Head(batch)
         IN  IF Malformed(item) THEN export_batch(tbl, Tail(batch), c)
             ELSE IF merge(get_item(tbl, KeyOf(item)), item, c, c).raised
             THEN tbl
             ELSE export_batch(written_table(tbl, item, TRUE, c, c),
                               Tail(batch), c)

\* faulty variant of MergeRow: the item of a failed update_item is stored
\* all the same
MergeRow_write_on_failure(item, read_ok, write_ok, c1, c2) ==
    /\ ~Malformed(item)
    /\ LET key == KeyOf(item)
           before == get_item(table, key)
           existing == IF read_ok THEN before ELSE None
           m == merge(existing, item, c1, c2)
           kind == IF m.raised THEN "raised"
                   ELSE IF write_ok THEN "written" ELSE "write_failed"
       IN  /\ table' = IF ~m.raised
                       THEN written_table(table, item, read_ok, c1, c2)
                       ELSE table
           /\ pc' = IF kind = "written" THEN "iterated" ELSE "raised"
           /\ contrib' = IF kind = "written"
                         THEN [contrib EXCEPT
                                 ![key] = Contribute(@, item, read_ok)]
                         ELSE contrib
           /\ last' = Some([kind |-> kind, item |-> item, key |-> key,
                            read_ok |-> read_ok, existing |-> existing,
                            before |-> before,
                            requests |-> IF m.raised THEN <<"get_item">>
                                         ELSE <<"get_item", "update_item">>])
    /\ idx' = idx + 1
    /\ ops' = ops + 1
    /\ now' = c2
    /\ UNCHANGED runvars
    /\ UNCHANGED concvars

\* lines 271-444: read, merge and write one well-formed row.  read_ok and
\* write_ok are the outcomes of get_item and update_item; c1 <= c2 are the
\* clock readings (first_seen fallback; last_seen fallback and afterwards)
MergeRow(item, read_ok, write_ok, c1, c2) ==
    /\ ~Malformed(item)
    /\ LET key == KeyOf(item)
           before == get_item(table, key)
           existing == IF read_ok THEN before ELSE None
           m == merge(existing, item, c1, c2)
           kind == IF m.raised THEN "raised"
                   ELSE IF write_ok THEN "written" ELSE "write_failed"
       IN  /\ table' = IF kind = "written"
                       THEN written_table(table, item, read_ok, c1, c2)
                       ELSE table
           /\ pc' = IF kind = "written" THEN "iterated" ELSE "raised"
           /\ contrib' = IF kind = "written"
                         THEN [contrib EXCEPT
                                 ![key] = Contribute(@, item, read_ok)]
                         ELSE contrib
           /\ last' = Some([kind |-> kind, item |-> item, key |-> key,
                            read_ok |-> read_ok, existing |-> existing,
                            before |-> before,
                            requests |-> IF m.raised THEN <<"get_item">>
                                         ELSE <<"get_item", "update_item">>])
    /\ idx' = idx + 1
    /\ ops' = ops + 1
    /\ now' = c2
    /\ UNCHANGED runvars
    /\ UNCHANGED concvars

\* the clock readings of one iteration: the clock never runs backwards and
\* at most one tick boundary falls within an iteration
ClockReadings ==
    {<<c1, c2>> \in (now..MaxNow) \X (now..MaxNow) : c1 <= c2 /\ c2 <= now + 1}

\* one iteration of the for loop of line 264: data holds a further row
LoopIteration(Rows) ==
    /\ pc = "loop"
    /\ ops < MaxOps
    /\ \E item \in Rows :
        \/ SkipRow(item)
        \/ \E read_ok \in BOOLEAN, write_ok \in BOOLEAN, c \in ClockReadings :
                MergeRow(item, read_ok, write_ok, c[1], c[2])

\* line 264: the for statement takes up the loop again
NextItem ==
    /\ pc = "iterated"
    /\ pc' = "loop"
    /\ last' = None
    /\ UNCHANGED <<table, idx, now, ops, contrib>>
    /\ UNCHANGED runvars
    /\ UNCHANGED concvars

\* line 446: data is exhausted and the call returns
FinishExport ==
    /\ pc = "loop"
    /\ pc' = "idle"
    /\ UNCHANGED <<table, idx, now, ops, last, contrib>>
    /\ UNCHANGED runvars
    /\ UNCHANGED concvars

\* the exporter fed with the rows of SetRows
Next == StartExport \/ LoopIteration(SetRows) \/ NextItem \/ FinishExport

Spec == Init /\ [][Next]_vars

\* the exporter fed with the rows of BoundRows
NextBounds ==
    StartExport \/ LoopIteration(BoundRows) \/ NextItem \/ FinishExport

SpecBounds == Init /\ [][NextBounds]_vars

\* the exporter fed with the rows of CollideRows
NextCollide ==
    StartExport \/ LoopIteration(CollideRows) \/ NextItem \/ FinishExport

SpecCollide == Init /\ [][NextCollide]_vars

(***************************************************************************)
(* S3                                                                      *)
(***************************************************************************)
\* datetime.date() of a clock reading
DateOf(c) == c \div TicksPerDay

\* f"{s3_prefix}/master.parquet" etc. with the default prefix
master_parquet_key == "observables/master.parquet"
master_csv_key == "observables/master.csv"
master_json_key == "observables/master.json"

\* f"{s3_prefix}/date={date_prefix}/observables_{timestamp}.{ext}"
dated_key(c, ext) ==
    "observables/date=" \o ToString(DateOf(c)) \o "/observables_"
        \o ToString(c) \o "." \o ext

\* upload_file: the object is created or replaced, LastModified is the
\* time of the upload
upload_file(bucket, key, body, c) ==
    [k \in DOMAIN bucket \cup {key} |->
        IF k = key THEN [last_modified |-> c, body |-> body] ELSE bucket[k]]

\* faulty variant of should_update_s3_master_file: a failed check is
\* answered by False
should_update_s3_master_file_fail_closed(s3_configured, bucket, head_ok, c) ==
    IF ~s3_configured THEN FALSE
    ELSE IF head_ok /\ master_parquet_key \in DOMAIN bucket
    THEN DateOf(bucket[master_parquet_key].last_modified) # DateOf(c)
    ELSE ~head_ok /\ master_parquet_key \in DOMAIN bucket

\* _should_update_s3_master_file, lines 691-720.  head_ok: head_object
\* answers (it raises when the object does not exist, and whenever S3
\* fails); every raise is answered by True
should_update_s3_master_file(s3_configured, bucket, head_ok, c) ==
    IF ~s3_configured THEN FALSE
    ELSE IF head_ok /\ master_parquet_key \in DOMAIN bucket
    THEN DateOf(bucket[master_parquet_key].last_modified) # DateOf(c)
    ELSE TRUE

\* faulty variant of merged_item: total_hits is not taken over
merged_item_no_hits(it, c) ==
    [indicator |-> it.indicator, indicator_type |-> it.indicator_type,
     first_seen |-> it.first_seen, last_seen |-> it.last_seen,
     total_hits |-> 0, days_seen |-> it.days_seen,
     attrs |-> it.attrs, export_timestamp |-> now_string(c)]

\* lines 646-662: the dict built from one scanned item
merged_item(it, c) ==
    [indicator |-> it.indicator, indicator_type |-> it.indicator_type,
     first_seen |-> it.first_seen, last_seen |-> it.last_seen,
     total_hits |-> it.total_hits, days_seen |-> it.days_seen,
     attrs |-> it.attrs, export_timestamp |-> now_string(c)]

\* the items of the table in the order the scan returns them
RECURSIVE scan_items(_, _, _)
scan_items(tbl, keys, c) ==
    IF keys = {} THEN << >>
    ELSE LET k == CHOOSE x \in keys : TRUE
         IN  <<merged_item(tbl[k], c)>> \o scan_items(tbl, keys \ {k}, c)

\* get_merged_data_from_dynamodb, lines 619-689: [] without a DynamoDB
\* client and when the scan raises
get_merged_data_from_dynamodb(dynamodb_configured, tbl, scan_ok, c) ==
    IF ~dynamodb_configured \/ ~scan_ok THEN << >>
    ELSE scan_items(tbl, DOMAIN tbl, c)

\* lines 220-221: '|'.join(str(x) for x in v) of a list
RECURSIVE join(_)
join(v) ==
    IF v = {} THEN ""
    ELSE LET x == CHOOSE e \in v : TRUE
         IN  IF v = {x} THEN x ELSE x \o "|" \o join(v \ {x})

\* lines 215-224: the cleaned_row written for a row: every list joined
\* with '|', every other value as str(v)
csv_row(row) ==
    [f \in DOMAIN row |->
        IF f \in {"total_hits", "days_seen"} THEN ToString(row[f])
        ELSE IF f = "attrs"
        THEN [a \in DOMAIN row[f] |-> join(row[f][a])]
        ELSE row[f]]

\* the CSV file (lines 199-224) and the JSON file (lines 232-233) of rows
csv_file(rows) ==
    [format |-> "csv", rows |-> [i \in 1..Len(rows) |-> csv_row(rows[i])]]

json_file(rows) == [format |-> "json", rows |-> rows]

\* faulty variant of export_to_s3: the JSON file is uploaded first
export_to_s3_json_first(s3_configured, bucket, log, rows, master_file, csv_ok, json_ok, c) ==
    LET csv_key == IF master_file THEN master_csv_key ELSE dated_key(c, "csv")
        json_key == IF master_file THEN master_json_key
                    ELSE dated_key(c, "json")
        with_json == upload_file(bucket, json_key, json_file(rows), c)
        with_csv == upload_file(with_json, csv_key, csv_file(rows), c)
    IN  IF ~s3_configured \/ rows = << >>
        THEN [raised |-> FALSE, bucket |-> bucket, log |-> log]
        ELSE IF ~json_ok
        THEN [raised |-> TRUE, bucket |-> bucket, log |-> log]
        ELSE IF ~csv_ok
        THEN [raised |-> TRUE, bucket |-> with_json,
              log |-> Append(log, [key |-> json_key, day |-> DateOf(c)])]
        ELSE [raised |-> FALSE, bucket |-> with_csv,
              log |-> log \o <<[key |-> json_key, day |-> DateOf(c)],
                                [key |-> csv_key, day |-> DateOf(c)]>>]

\* export_to_s3, lines 162-239: without client and without rows nothing
\* is uploaded; else the CSV file and then the JSON file are uploaded, and
\* a failed upload_file raises.  (_load_existing_master_file returns []
\* on every path, so the master file is never merged with a previous one.)
export_to_s3(s3_configured, bucket, log, rows, master_file, csv_ok, json_ok, c) ==
    LET csv_key == IF master_file THEN master_csv_key ELSE dated_key(c, "csv")
        json_key == IF master_file THEN master_json_key
                    ELSE dated_key(c, "json")
        with_csv == upload_file(bucket, csv_key, csv_file(rows), c)
        with_json == upload_file(with_csv, json_key, json_file(rows), c)
    IN  IF ~s3_configured \/ rows = << >>
        THEN [raised |-> FALSE, bucket |-> bucket, log |-> log]
        ELSE IF ~csv_ok
        THEN [raised |-> TRUE, bucket |-> bucket, log |-> log]
        ELSE IF ~json_ok
        THEN [raised |-> TRUE, bucket |-> with_csv,
              log |-> Append(log, [key |-> csv_key, day |-> DateOf(c)])]
        ELSE [raised |-> FALSE, bucket |-> with_json,
              log |-> log \o <<[key |-> csv_key, day |-> DateOf(c)],
                                [key |-> json_key, day |-> DateOf(c)]>>]

(***************************************************************************)
(* PostgreSQL                                                              *)
(***************************************************************************)
\* the TEXT[] columns of observable_catalog, lines 504-508
RdsArrays == {"src_ips", "dest_ips", "users", "sourcetypes", "actions"}

\* lines 553-554: datetime.fromisoformat(..) if item.get(..) else None
rds_timestamp(ts_str) == IF ts_str.k = "ts" THEN Some(ts_str.t) ELSE None

\* lines 553-555: fromisoformat and int raise on text they reject
rds_raises(item) ==
    \/ item.first_seen.k = "bad"
    \/ item.last_seen.k = "bad"
    \/ int_raises(item.total_hits)

\* LEAST and GREATEST ignore NULL arguments
LEAST(a, b) ==
    IF a = None THEN b ELSE IF b = None THEN a
    ELSE Some(Min(Get(a), Get(b)))

GREATEST(a, b) ==
    IF a = None THEN b ELSE IF b = None THEN a
    ELSE Some(Max(Get(a), Get(b)))

\* faulty variant of rds_upsert: on conflict total_hits is replaced by the
\* incoming count
rds_upsert_replace_hits(tbl, item, c) ==
    LET key == KeyOf(item)
        excluded ==
            [indicator |-> item.indicator,
             indicator_type |-> item.indicator_type,
             first_seen |-> rds_timestamp(item.first_seen),
             last_seen |-> rds_timestamp(item.last_seen),
             total_hits |-> item.total_hits,
             days_seen |-> IF item.days_seen # 0
                           THEN Some(item.days_seen) ELSE None,
             attrs |-> [a \in RdsArrays |-> item.attrs[a]],
             export_timestamp |-> c]
        updated ==
            [excluded EXCEPT
                !.first_seen = LEAST(tbl[key].first_seen, @),
                !.last_seen = GREATEST(tbl[key].last_seen, @),
                !.attrs = [a \in RdsArrays |-> tbl[key].attrs[a] \cup @[a]]]
    IN  [k \in DOMAIN tbl \cup {key} |->
            IF k # key THEN tbl[k]
            ELSE IF key \in DOMAIN tbl THEN updated ELSE excluded]

\* lines 535-560: INSERT ... ON CONFLICT (indicator_key) DO UPDATE
rds_upsert(tbl, item, c) ==
    LET key == KeyOf(item)
        excluded ==
            [indicator |-> item.indicator,
             indicator_type |-> item.indicator_type,
             first_seen |-> rds_timestamp(item.first_seen),
             last_seen |-> rds_timestamp(item.last_seen),
             total_hits |-> item.total_hits,
             days_seen |-> IF item.days_seen # 0
                           THEN Some(item.days_seen) ELSE None,
             attrs |-> [a \in RdsArrays |-> item.attrs[a]],
             export_timestamp |-> c]
        updated ==
            [excluded EXCEPT
                !.first_seen = LEAST(tbl[key].first_seen, @),
                !.last_seen = GREATEST(tbl[key].last_seen, @),
                !.total_hits = tbl[key].total_hits + @,
                !.attrs = [a \in RdsArrays |-> tbl[key].attrs[a] \cup @[a]]]
    IN  [k \in DOMAIN tbl \cup {key} |->
            IF k # key THEN tbl[k]
            ELSE IF key \in DOMAIN tbl THEN updated ELSE excluded]

\* lines 518-560: the statements of the transaction, row by row
RECURSIVE rds_upsert_all(_, _, _)
rds_upsert_all(tbl, rows, c) ==
    IF rows = << >> THEN tbl
    ELSE rds_upsert_all(IF Malformed(Head(rows)) THEN tbl
                        ELSE rds_upsert(tbl, Head(rows), c),
                        Tail(rows), c)

\* a well-formed row of rows makes the parameter conversion raise
RECURSIVE rds_rows_raise(_)
rds_rows_raise(rows) ==
    /\ rows # << >>
    /\ \/ ~Malformed(Head(rows)) /\ rds_raises(Head(rows))
       \/ rds_rows_raise(Tail(rows))

\* the rows upserted before the first one whose statement raises
RECURSIVE rds_upsert_until_raise(_, _, _)
rds_upsert_until_raise(tbl, rows, c) ==
    IF rows = << >> THEN tbl
    ELSE IF Malformed(Head(rows))
    THEN rds_upsert_until_raise(tbl, Tail(rows), c)
    ELSE IF rds_raises(Head(rows)) THEN tbl
    ELSE rds_upsert_until_raise(rds_upsert(tbl, Head(rows), c), Tail(rows), c)

\* faulty variant of export_to_rds_postgres: every statement is committed
\* on its own
export_to_rds_postgres_autocommit(rds_configured, tbl, rows, connect_ok, c) ==
    IF ~rds_configured THEN [raised |-> FALSE, table |-> tbl]
    ELSE IF ~connect_ok THEN [raised |-> TRUE, table |-> tbl]
    ELSE [raised |-> rds_rows_raise(rows),
          table |-> rds_upsert_until_raise(tbl, rows, c)]

\* faulty variant of export_to_rds_postgres: the transaction is run
\* whether or not RDS is configured
export_to_rds_postgres_unchecked(rds_configured, tbl, rows, connect_ok, c) ==
    IF ~connect_ok \/ rds_rows_raise(rows)
    THEN [raised |-> TRUE, table |-> tbl]
    ELSE [raised |-> FALSE, table |-> rds_upsert_all(tbl, rows, c)]

\* export_to_rds_postgres, lines 452-576: skipped without driver or
\* configuration; else one transaction, committed at the end (line 568)
\* and lost as a whole when anything raises before.  connect_ok: the
\* credentials are complete, the server accepts the connection and
\* executes the statements
export_to_rds_postgres(rds_configured, tbl, rows, connect_ok, c) ==
    IF ~rds_configured THEN [raised |-> FALSE, table |-> tbl]
    ELSE IF ~connect_ok \/ rds_rows_raise(rows)
    THEN [raised |-> TRUE, table |-> tbl]
    ELSE [raised |-> FALSE, table |-> rds_upsert_all(tbl, rows, c)]

(***************************************************************************)
(* Both stores fed with the same batches                                   *)
(***************************************************************************)
\* rows of two identities with parseable, offset-aware bounds, and one row
\* lacking its indicator
DualRows ==
    {Row(i, "ip", fs, ls, th, {}) :
        i \in Indicators, fs \in {ZStamp(0), ZStamp(4)},
        ls \in {ZStamp(9), ZStamp(14)}, th \in HitsValues}
    \cup {Row("", "ip", ZStamp(0), ZStamp(9), 2, {})}

\* both stores are empty and every backend is configured
InitDual ==
    /\ table = << >>
    /\ contrib = [k \in Keys |-> NoContrib]
    /\ pc = "idle" /\ idx = 0 /\ now = NowStart /\ ops = 0 /\ last = None
    /\ InitRun /\ cfg = FullConfig /\ s3 = << >>

\* lines 592-593 and 610-611 of run_export: one batch is applied to
\* DynamoDB and to PostgreSQL, each exactly once, with no failure
ExportToBoth(batch) ==
    /\ ops + Len(batch) <= MaxOps
    /\ LET r == export_to_rds_postgres(cfg.rds, rds, batch, TRUE, now)
       IN  /\ ~r.raised
           /\ rds' = r.table
    /\ table' = export_batch(table, batch, now)
    /\ ops' = ops + Len(batch)
    /\ data' = batch
    /\ runs' = runs + 1
    /\ UNCHANGED <<pc, idx, now, last, contrib>>
    /\ UNCHANGED <<cfg, rpc, fmt, s3, status, s3_log>>
    /\ UNCHANGED concvars

NextDual ==
    \E batch \in {<<r>> : r \in DualRows}
                 \cup {<<r1, r2>> : r1 \in DualRows, r2 \in DualRows} :
        ExportToBoth(batch)

SpecDual == InitDual /\ [][NextDual]_vars

(***************************************************************************)
(* Two overlapping runs of export_to_dynamodb on one table                 *)
(***************************************************************************)
\* rows of two identities, with parseable offset-aware bounds
RaceRows ==
    {Row(i, "ip", ZStamp(0), ZStamp(9), th, {}) :
        i \in Indicators, th \in HitsValues}

\* position of the next request in the order in which DynamoDB serves the
\* requests of the iterations in progress
NextRequest ==
    1 + Max(Max(workers[1].read_at, workers[1].wrote_at),
            Max(workers[2].read_at, workers[2].wrote_at))

\* lines 264-302: run w takes its next row and reads the stored aggregate
\* with get_item; a failed read leaves existing_item None
WorkerRead(w, item, read_ok) ==
    /\ workers[w].pc # "read"
    /\ ops < MaxOps
    /\ ops' = ops + 1
    /\ workers' = [workers EXCEPT ![w] =
                      [pc |-> "read", item |-> Some(item),
                       existing |-> IF read_ok
                                    THEN get_item(table, KeyOf(item))
                                    ELSE None,
                       read_at |-> NextRequest, wrote_at |-> 0]]
    /\ UNCHANGED <<table, pc, idx, now, last, contrib, scan, invocation>>
    /\ UNCHANGED runvars

\* faulty variant of WorkerWrite: the aggregate is read again when it is
\* written, in one step with the write
WorkerWrite_atomic(w, write_ok) ==
    /\ workers[w].pc = "read"
    /\ LET item == Get(workers[w].item)
           key == KeyOf(item)
           m == merge(get_item(table, key), item, now, now)
           ok == write_ok /\ ~m.raised
       IN  /\ table' = IF ok THEN update_item(table, key, item, m, now)
                       ELSE table
           /\ workers' = [workers EXCEPT
                             ![w].pc = IF ok THEN "written" ELSE "raised",
                             ![w].wrote_at = IF ok THEN NextRequest ELSE 0]
    /\ UNCHANGED <<pc, idx, now, ops, last, contrib, scan, invocation>>
    /\ UNCHANGED runvars

\* lines 304-444: run w merges its row with the aggregate it read earlier
\* and writes the result with update_item; nothing ties the write to the
\* item still being as it was read
WorkerWrite(w, write_ok) ==
    /\ workers[w].pc = "read"
    /\ LET item == Get(workers[w].item)
           key == KeyOf(item)
           m == merge(workers[w].existing, item, now, now)
           ok == write_ok /\ ~m.raised
       IN  /\ table' = IF ok THEN update_item(table, key, item, m, now)
                       ELSE table
           /\ workers' = [workers EXCEPT
                             ![w].pc = IF ok THEN "written" ELSE "raised",
                             ![w].wrote_at = IF ok THEN NextRequest ELSE 0]
    /\ UNCHANGED <<pc, idx, now, ops, last, contrib, scan, invocation>>
    /\ UNCHANGED runvars

NextRace ==
    \E w \in Workers :
        \/ \E item \in RaceRows, read_ok \in BOOLEAN :
               WorkerRead(w, item, read_ok)
        \/ \E write_ok \in BOOLEAN : WorkerWrite(w, write_ok)

SpecRace == Init /\ [][NextRace]_vars

(***************************************************************************)
(* The scan loop of get_merged_data_from_dynamodb, page by page            *)
(***************************************************************************)
\* 'Limit': 100 of line 635, scaled down
ScanLimit == 2

\* the items of the scanned table
ScanIndicators == {"1.2.3.4", "8.8.8.8", "9.9.9.9"}

\* a table holding one aggregate per row of rows
RECURSIVE TableOf(_)
TableOf(rows) ==
    IF rows = {} THEN << >>
    ELSE LET r == CHOOSE x \in rows : TRUE
         IN  written_table(TableOf(rows \ {r}), r, TRUE, SeedClock, SeedClock)

ScanTables ==
    {TableOf({Row(i, "ip", ZStamp(0), ZStamp(9), hits[i], {"A", "B"}) :
                 i \in S}) :
        S \in SUBSET ScanIndicators, hits \in [ScanIndicators -> HitsValues]}

\* the order in which DynamoDB returns the keys of an unmutated table
RECURSIVE ScanOrder(_)
ScanOrder(keys) ==
    IF keys = {} THEN << >>
    ELSE LET k == CHOOSE x \in keys : TRUE
         IN  <<k>> \o ScanOrder(keys \ {k})

\* the keys after ExclusiveStartKey, all keys when there is none
KeysAfter(order, last_evaluated_key) ==
    IF last_evaluated_key = None THEN order
    ELSE LET i == CHOOSE j \in 1..Len(order) :
                      order[j] = Get(last_evaluated_key)
         IN  SubSeq(order, i + 1, Len(order))

InitScan ==
    /\ table \in ScanTables
    /\ contrib = [k \in Keys |-> NoContrib]
    /\ pc = "idle" /\ idx = 0 /\ now = NowStart /\ ops = 0 /\ last = None
    /\ InitRun /\ cfg = FullConfig /\ s3 = << >>

\* lines 628-631: the call begins with no cursor and no record
StartScan ==
    /\ scan.pc = "idle"
    /\ rpc = "none"
    /\ cfg.dynamodb
    /\ scan' = [NoScan EXCEPT !.pc = "scanning"]
    /\ rpc' = "s3"
    /\ UNCHANGED <<cfg, fmt, data, s3, rds, status, s3_log, runs>>
    /\ UNCHANGED <<workers, invocation, dbvars>>

\* the response to one scan request: up to ScanLimit items after the
\* cursor, at least one when any is left, and a LastEvaluatedKey whenever
\* items are left after the page; a page that ends the table exactly at the
\* limit may carry one as well
ScanResponses(remaining) ==
    {[Items |-> SubSeq(remaining, 1, n), LastEvaluatedKey |-> lek] :
        n \in {m \in 0..ScanLimit :
                  m <= Len(remaining) /\ (remaining # << >> => m >= 1)},
        lek \in {None} \cup {Some(k) : k \in DOMAIN table}}

ValidResponse(remaining, response) ==
    LET n == Len(response.Items)
    IN  IF n < Len(remaining)
        THEN response.LastEvaluatedKey = Some(remaining[n])
        ELSE \/ response.LastEvaluatedKey = None
             \/ /\ n = ScanLimit
                /\ response.LastEvaluatedKey = Some(remaining[n])

\* faulty variant of ScanPage: the cursor is not passed on, every request
\* reads from the beginning
ScanPage_from_start(scan_ok) ==
    /\ scan.pc = "scanning"
    /\ IF ~scan_ok
       THEN scan' = [scan EXCEPT !.pc = "raised", !.merged_data = << >>]
       ELSE LET remaining == KeysAfter(ScanOrder(DOMAIN table), None)
            IN  \E response \in ScanResponses(remaining) :
                    /\ ValidResponse(remaining, response)
                    /\ scan' =
                          [pc |-> IF response.LastEvaluatedKey = None
                                  THEN "returned" ELSE "scanning",
                           last_evaluated_key |-> response.LastEvaluatedKey,
                           merged_data |->
                               scan.merged_data \o
                               [i \in 1..Len(response.Items) |->
                                   merged_item(table[response.Items[i]], now)],
                           pages |-> Min(scan.pages + 1, ScanLimit + 2)]
    /\ UNCHANGED <<workers, invocation, dbvars, runvars>>

\* faulty variant of ScanPage: when a request fails the records of the
\* pages read so far are returned
ScanPage_keep_pages(scan_ok) ==
    /\ scan.pc = "scanning"
    /\ IF ~scan_ok
       THEN scan' = [scan EXCEPT !.pc = "raised"]
       ELSE LET remaining == KeysAfter(ScanOrder(DOMAIN table),
                                       scan.last_evaluated_key)
            IN  \E response \in ScanResponses(remaining) :
                    /\ ValidResponse(remaining, response)
                    /\ scan' =
                          [pc |-> IF response.LastEvaluatedKey = None
                                  THEN "returned" ELSE "scanning",
                           last_evaluated_key |-> response.LastEvaluatedKey,
                           merged_data |->
                               scan.merged_data \o
                               [i \in 1..Len(response.Items) |->
                                   merged_item(table[response.Items[i]], now)],
                           pages |-> scan.pages + 1]
    /\ UNCHANGED <<workers, invocation, dbvars, runvars>>

\* lines 633-680: one turn of the while loop: a scan request with the
\* cursor of the previous page, the items of the response appended, the
\* loop left when the response carries no LastEvaluatedKey; lines 685-689:
\* any exception ends the call with []
ScanPage(scan_ok) ==
    /\ scan.pc = "scanning"
    /\ IF ~scan_ok
       THEN scan' = [scan EXCEPT !.pc = "raised", !.merged_data = << >>]
       ELSE LET remaining == KeysAfter(ScanOrder(DOMAIN table),
                                       scan.last_evaluated_key)
            IN  \E response \in ScanResponses(remaining) :
                    /\ ValidResponse(remaining, response)
                    /\ scan' =
                          [pc |-> IF response.LastEvaluatedKey = None
                                  THEN "returned" ELSE "scanning",
                           last_evaluated_key |-> response.LastEvaluatedKey,
                           merged_data |->
                               scan.merged_data \o
                               [i \in 1..Len(response.Items) |->
                                   merged_item(table[response.Items[i]], now)],
                           pages |-> scan.pages + 1]
    /\ UNCHANGED <<workers, invocation, dbvars, runvars>>


(***************************************************************************)
(* main and run_export                                                     *)
(***************************************************************************)
\* choices of --format, line 851
Formats == {"all", "s3", "dynamodb", "rds"}

\* connect_aws creates a client for each of aws.dynamodb_table and
\* aws.s3_bucket that is set; rds: aws.rds is set and psycopg2 imports.
\* The configurations explored: every backend, every backend but one,
\* and none
Configs ==
    {c \in [dynamodb : BOOLEAN, s3 : BOOLEAN, rds : BOOLEAN] :
        \/ c.dynamodb /\ c.s3
        \/ c.dynamodb /\ c.rds
        \/ c.s3 /\ c.rds
        \/ ~(c.dynamodb \/ c.s3 \/ c.rds)}

\* the rows the search returns: SeedRow, and a row of a second identity
RunRows ==
    <<SeedRow, Row("8.8.8.8", "ip", ZStamp(4), ZStamp(14), 2, {"B", "C"})>>

\* the result lists of the search: none, one or two rows
RunBatches == {<< >>, <<RunRows[1]>>, <<RunRows[2]>>, RunRows}

\* a bucket holding a master.parquet written earlier on the day of
\* NowStart, by an exporter whose Parquet export was not disabled
LegacyBucket ==
    upload_file(<< >>, master_parquet_key,
                [format |-> "parquet", rows |-> << >>], NowStart - 1)

\* faulty variant of exit_status: main exits with 0 whatever happened
exit_status_zero(raised) == 0

\* main, lines 856-862: sys.exit(1) when run_export raised, else the
\* interpreter's 0
exit_status(raised) == IF raised THEN 1 ELSE 0

\* the end of a run of main at step at of run_export ("source": before
\* the search returned; "search": the search returned no row)
Ended(raised, at) == Some([exit |-> exit_status(raised), at |-> at])

\* the bucket after an earlier run of the day of NowStart, format 'all',
\* uploaded the master files from a scan of SeededTable
SeededBucket ==
    export_to_s3(TRUE, << >>, << >>,
                 get_merged_data_from_dynamodb(TRUE, SeededTable, TRUE,
                                               NowStart - 1),
                 TRUE, TRUE, TRUE, NowStart - 1).bucket

\* the stores as earlier runs may have left them
InitMain ==
    /\ InitTable /\ InitRun
    /\ cfg \in Configs
    /\ \/ s3 \in {<< >>, LegacyBucket}
       \/ table = SeededTable /\ s3 = SeededBucket

\* faulty variant of RunStart: run_export goes on with an empty search
\* result
RunStart_no_empty_check(source_ok, f, batch) ==
    /\ rpc = "none"
    /\ runs < MaxRuns
    /\ runs' = runs + 1
    /\ IF ~source_ok
       THEN /\ data' = << >>
            /\ fmt' = "all"
            /\ rpc' = "none"
            /\ status' = Ended(TRUE, "source")
       ELSE /\ data' = batch
            /\ fmt' = f
            /\ rpc' = "dynamodb"
            /\ status' = None
    /\ UNCHANGED <<cfg, s3, rds, s3_log>>
    /\ UNCHANGED dbvars
    /\ UNCHANGED concvars

\* lines 579-587: connect_splunk, connect_aws, load_spl_query and
\* execute_splunk_search.  source_ok: Splunk is reachable with complete
\* credentials and the search succeeds; batch: what the search returns
RunStart(source_ok, f, batch) ==
    /\ rpc = "none"
    /\ runs < MaxRuns
    /\ runs' = runs + 1
    /\ IF ~source_ok
       THEN /\ data' = << >>
            /\ fmt' = "all"
            /\ rpc' = "none"
            /\ status' = Ended(TRUE, "source")
       ELSE /\ data' = batch
            /\ fmt' = IF batch = << >> THEN "all" ELSE f
            /\ rpc' = IF batch = << >> THEN "none" ELSE "dynamodb"
            /\ status' = IF batch = << >> THEN Ended(FALSE, "search")
                         ELSE None
    /\ UNCHANGED <<cfg, s3, rds, s3_log>>
    /\ UNCHANGED dbvars
    /\ UNCHANGED concvars

\* lines 591-592 and 254-263: export_to_dynamodb is called for the
\* formats 'all' and 'dynamodb' and returns at once without client
RunExportToDynamoDB ==
    /\ rpc = "dynamodb"
    /\ pc = "idle"
    /\ IF fmt \in {"all", "dynamodb"} /\ cfg.dynamodb
       THEN StartExport
       ELSE /\ rpc' = "s3"
            /\ UNCHANGED <<cfg, fmt, data, s3, rds, status, s3_log, runs>>
            /\ UNCHANGED dbvars
            /\ UNCHANGED concvars

\* one iteration of the loop of line 264 over data
RunLoopIteration ==
    /\ rpc = "dynamodb"
    /\ pc = "loop"
    /\ idx < Len(data)
    /\ \/ SkipRow(data[idx + 1])
       \/ \E read_ok \in BOOLEAN, write_ok \in BOOLEAN :
                MergeRow(data[idx + 1], read_ok, write_ok, now, now)

RunNextItem == rpc = "dynamodb" /\ NextItem

\* line 446: data is exhausted, export_to_dynamodb returns to run_export
RunDynamoDBReturns ==
    /\ rpc = "dynamodb"
    /\ pc = "loop"
    /\ idx = Len(data)
    /\ pc' = "idle"
    /\ idx' = 0
    /\ rpc' = "s3"
    /\ UNCHANGED <<table, now, ops, last, contrib>>
    /\ UNCHANGED <<cfg, fmt, data, s3, rds, status, s3_log, runs>>
    /\ UNCHANGED concvars

\* faulty variant of RunDynamoDBRaises: the exception of export_to_dynamodb
\* is swallowed and run_export goes on with the S3 step
RunDynamoDBRaises_continue ==
    /\ rpc = "dynamodb"
    /\ pc = "raised"
    /\ pc' = "idle"
    /\ last' = None
    /\ rpc' = "s3"
    /\ idx' = 0
    /\ UNCHANGED <<table, now, ops, contrib>>
    /\ UNCHANGED <<cfg, fmt, data, s3, rds, status, s3_log, runs>>
    /\ UNCHANGED concvars

\* lines 448-450 and 613-615: the exception of export_to_dynamodb leaves
\* run_export, and main exits
RunDynamoDBRaises ==
    /\ rpc = "dynamodb"
    /\ pc = "raised"
    /\ pc' = "idle"
    /\ last' = None
    /\ rpc' = "none"
    /\ status' = Ended(TRUE, "dynamodb")
    /\ fmt' = "all"
    /\ data' = << >>
    /\ idx' = 0
    /\ UNCHANGED <<table, now, ops, contrib>>
    /\ UNCHANGED <<cfg, s3, rds, s3_log, runs>>
    /\ UNCHANGED concvars

\* lines 594-607: the S3 step.  'all': the master files are written from
\* a scan of the table when _should_update_s3_master_file says so and the
\* scan returns items; 's3': the rows of the search are written under
\* dated keys.  head_ok, scan_ok, csv_ok, json_ok: head_object, scan and
\* the two upload_file requests succeed
RunExportToS3(head_ok, scan_ok, csv_ok, json_ok) ==
    /\ rpc = "s3"
    /\ LET should_update_s3 ==
               should_update_s3_master_file(cfg.s3, s3, head_ok, now)
           s3_data ==
               IF should_update_s3
               THEN get_merged_data_from_dynamodb(cfg.dynamodb, table,
                                                  scan_ok, now)
               ELSE << >>
           r == IF fmt = "all"
                THEN export_to_s3(cfg.s3, s3, s3_log, s3_data, TRUE,
                                  csv_ok, json_ok, now)
                ELSE IF fmt = "s3"
                THEN export_to_s3(cfg.s3, s3, s3_log, data, FALSE,
                                  csv_ok, json_ok, now)
                ELSE [raised |-> FALSE, bucket |-> s3, log |-> s3_log]
       IN  /\ s3' = r.bucket
           /\ s3_log' = r.log
           /\ rpc' = IF r.raised THEN "none" ELSE "rds"
           /\ status' = IF r.raised THEN Ended(TRUE, "s3") ELSE status
           /\ fmt' = IF r.raised THEN "all" ELSE fmt
           /\ data' = IF r.raised THEN << >> ELSE data
    /\ UNCHANGED <<cfg, rds, runs>>
    /\ UNCHANGED dbvars
    /\ UNCHANGED concvars

\* faulty variant of RunExportToRds: export_to_rds_postgres is called
\* whatever the format
RunExportToRds_any_format(connect_ok) ==
    /\ rpc = "rds"
    /\ LET r == export_to_rds_postgres(cfg.rds, rds, data, connect_ok, now)
       IN  /\ rds' = r.table
           /\ status' = Ended(r.raised, "rds")
    /\ rpc' = "none"
    /\ fmt' = "all"
    /\ data' = << >>
    /\ UNCHANGED <<cfg, s3, s3_log, runs>>
    /\ UNCHANGED dbvars
    /\ UNCHANGED concvars

\* lines 609-615: the RDS step, the end of run_export and of main
RunExportToRds(connect_ok) ==
    /\ rpc = "rds"
    /\ LET r == IF fmt \in {"all", "rds"}
                THEN export_to_rds_postgres(cfg.rds, rds, data,
                                            connect_ok, now)
                ELSE [raised |-> FALSE, table |-> rds]
       IN  /\ rds' = r.table
           /\ status' = Ended(r.raised, "rds")
    /\ rpc' = "none"
    /\ fmt' = "all"
    /\ data' = << >>
    /\ UNCHANGED <<cfg, s3, s3_log, runs>>
    /\ UNCHANGED dbvars
    /\ UNCHANGED concvars

\* the runs of main happen on the day of NowStart or on the day after:
\* between two runs the midnight of the first day passes
DayPasses ==
    /\ rpc = "none"
    /\ DateOf(now) = DateOf(NowStart)
    /\ now' = now + TicksPerDay
    /\ UNCHANGED <<table, pc, idx, ops, last, contrib>>
    /\ UNCHANGED runvars
    /\ UNCHANGED concvars

NextMain ==
    \/ \E source_ok \in BOOLEAN, f \in Formats, batch \in RunBatches :
            RunStart(source_ok, f, batch)
    \/ RunExportToDynamoDB
    \/ RunLoopIteration
    \/ RunNextItem
    \/ RunDynamoDBReturns
    \/ RunDynamoDBRaises
    \/ \E head_ok \in BOOLEAN, scan_ok \in BOOLEAN,
          csv_ok \in BOOLEAN, json_ok \in BOOLEAN :
            RunExportToS3(head_ok, scan_ok, csv_ok, json_ok)
    \/ \E connect_ok \in BOOLEAN : RunExportToRds(connect_ok)
    \/ DayPasses

\* main run from the command line, over and over
SpecMain == InitMain /\ [][NextMain]_vars

(***************************************************************************)
(* Batches with rows the PostgreSQL export cannot convert                  *)
(***************************************************************************)
\* rows of two identities; one row whose first_seen fromisoformat rejects,
\* one whose total_hits int rejects, one lacking its indicator
RdsRows ==
    {Row(i, "ip", ZStamp(0), ZStamp(9), th, {"A", "B"}) :
        i \in Indicators, th \in HitsValues}
    \cup {Row("1.2.3.4", "ip", Garbage, ZStamp(9), 2, {}),
          Row("1.2.3.4", "ip", ZStamp(0), ZStamp(9), NotNumeric, {}),
          Row("", "ip", ZStamp(0), ZStamp(9), 2, {})}

RdsBatches ==
    {<<r>> : r \in RdsRows} \cup {<<r1, r2>> : r1 \in RdsRows, r2 \in RdsRows}

\* lines 592-593 and 610-615 of run_export: a batch is handed to
\* export_to_dynamodb, whose loop ends at the first row that raises, and
\* to export_to_rds_postgres.  connect_ok: the server accepts the
\* connection and executes the statements
ExportBatch(batch, connect_ok) ==
    /\ ops + Len(batch) <= MaxOps
    /\ LET r == export_to_rds_postgres(cfg.rds, rds, batch, connect_ok, now)
       IN  /\ rds' = r.table
           /\ status' = Ended(r.raised, "rds")
    /\ table' = export_batch(table, batch, now)
    /\ ops' = ops + Len(batch)
    /\ data' = batch
    /\ runs' = runs + 1
    /\ UNCHANGED <<pc, idx, now, last, contrib>>
    /\ UNCHANGED <<cfg, rpc, fmt, s3, s3_log>>
    /\ UNCHANGED concvars

NextRds ==
    \E batch \in RdsBatches, connect_ok \in BOOLEAN :
        ExportBatch(batch, connect_ok)

SpecRds == InitDual /\ [][NextRds]_vars

(***************************************************************************)
(* lambda_handler (src/lambda_function.py)                                 *)
(***************************************************************************)
\* faulty variant of lambda_handler_response: the handler answers 200
\* however run_export ended
lambda_handler_response_always_200(ended) ==
    [pc |-> "returned", statusCode |-> 200,
     body |-> "Export completed successfully"]

\* lines 37-54: the response after run_export returned (ended.exit = 0) or
\* raised; str(e) is told apart by the step at which run_export failed
lambda_handler_response(ended) ==
    IF ended.exit = 0
    THEN [pc |-> "returned", statusCode |-> 200,
          body |-> "Export completed successfully"]
    ELSE [pc |-> "returned", statusCode |-> 500, body |-> ended.at]

\* lines 20-31: the configuration the handler builds has no 'rds' entry
InitLambda == InitMain /\ ~cfg.rds

\* line 17: int() of a LOOKBACK_DAYS that is not a number raises before
\* the try statement: the invocation ends with that exception and without
\* an exporter
LambdaEnvRaises ==
    /\ rpc = "none"
    /\ status = None
    /\ runs < MaxRuns
    /\ runs' = runs + 1
    /\ invocation' = [pc |-> "raised", statusCode |-> 0, body |-> ""]
    /\ UNCHANGED <<cfg, rpc, fmt, data, s3, rds, status, s3_log>>
    /\ UNCHANGED <<workers, scan, dbvars>>

\* lines 33-35: the exporter is built and run_export is called
LambdaRunExport(source_ok, f, batch) ==
    /\ status = None
    /\ RunStart(source_ok, f, batch)

\* lines 37-54: run_export has returned or raised, the handler returns its
\* response
LambdaReturns ==
    /\ rpc = "none"
    /\ IsSome(status)
    /\ invocation' = lambda_handler_response(Get(status))
    /\ status' = None
    /\ UNCHANGED <<cfg, rpc, fmt, data, s3, rds, s3_log, runs>>
    /\ UNCHANGED <<workers, scan, dbvars>>

NextLambda ==
    \/ LambdaEnvRaises
    \/ \E source_ok \in BOOLEAN, f \in Formats, batch \in RunBatches :
            LambdaRunExport(source_ok, f, batch)
    \/ RunExportToDynamoDB
    \/ RunLoopIteration
    \/ RunNextItem
    \/ RunDynamoDBReturns
    \/ RunDynamoDBRaises
    \/ \E head_ok \in BOOLEAN, scan_ok \in BOOLEAN,
          csv_ok \in BOOLEAN, json_ok \in BOOLEAN :
            RunExportToS3(head_ok, scan_ok, csv_ok, json_ok)
    \/ \E connect_ok \in BOOLEAN : RunExportToRds(connect_ok)
    \/ LambdaReturns
    \/ DayPasses

SpecLambda == InitLambda /\ [][NextLambda]_vars

(***************************************************************************)
(* The S3 step of an 'all' run with the scan taken page by page            *)
(***************************************************************************)
\* lines 599-604 of run_export: get_merged_data_from_dynamodb has returned
\* s3_data, the list of a finished scan or [] of a failed one; the master
\* files are uploaded when it is not empty, and run_export goes on to the
\* RDS step unless an upload raises
MasterUploadAfterScan(csv_ok, json_ok) ==
    /\ rpc = "s3"
    /\ scan.pc \in {"returned", "raised"}
    /\ LET s3_data == scan.merged_data
           r == export_to_s3(cfg.s3, s3, s3_log, s3_data, TRUE,
                             csv_ok, json_ok, now)
       IN  /\ s3' = r.bucket
           /\ s3_log' = r.log
           /\ rpc' = IF r.raised THEN "none" ELSE "rds"
           /\ status' = IF r.raised THEN Ended(TRUE, "s3") ELSE status
    /\ UNCHANGED <<cfg, fmt, data, rds, runs>>
    /\ UNCHANGED dbvars
    /\ UNCHANGED concvars

NextScan ==
    \/ StartScan
    \/ \E scan_ok \in BOOLEAN : ScanPage(scan_ok)
    \/ \E csv_ok \in BOOLEAN, json_ok \in BOOLEAN :
          MasterUploadAfterScan(csv_ok, json_ok)

\* the service answers every request, so the loop keeps taking turns
SpecScan == InitScan /\ [][NextScan]_vars /\ WF_vars(NextScan)

(***************************************************************************)
(* Shorthands for the claims                                               *)
(***************************************************************************)
\* the latest iteration ended with a successful update_item
Wrote == IsSome(last) /\ Get(last).kind = "written"
\* ... for an identity that had a stored aggregate when the iteration began
WroteOnStored == Wrote /\ IsSome(Get(last).before)
\* ... and get_item returned that aggregate
WroteOnRead == Wrote /\ IsSome(Get(last).existing)
Stored == table[Get(last).key]
Before == Get(Get(last).before)
Incoming == Get(last).item
Parses(s) == IsSome(parse_iso_timestamp(s))
Instant(s) == Get(parse_iso_timestamp(s)).t

(***************************************************************************)
(* C1.  When an aggregate is stored for the identity and the incoming      *)
(* observation carries a non-empty set for a multi-valued attribute, the   *)
(* set stored after the write is the union of the previously stored set    *)
(* and the incoming set.                                                   *)
(***************************************************************************)
C1_StoredSetIsUnion ==
    WroteOnRead =>
        \A a \in MultiValued :
            Incoming.attrs[a] # {} =>
                Stored.attrs[a] = Before.attrs[a] \cup Incoming.attrs[a]

(***************************************************************************)
(* C2.  As long as no get_item has failed for an identity, its stored      *)
(* total_hits is the sum of the total_hits of the observations written     *)
(* for it: each observation of a batch sees the writes of the earlier      *)
(* ones.                                                                   *)
(***************************************************************************)
C2_AdditiveHits ==
    \A k \in DOMAIN table :
        contrib[k].reads_ok => table[k].total_hits = contrib[k].hits

\* two rows of one call, 40 and 2 hits, written in a row to an identity
\* that was not stored before
C2_Witness ==
    /\ WroteOnStored
    /\ idx = 2 /\ ops = 2
    /\ Get(last).key = "ip#8.8.8.8"
    /\ contrib[Get(last).key].reads_ok
    /\ Before.total_hits = 40
    /\ Incoming.total_hits = 2
    /\ Stored.total_hits = 42

(***************************************************************************)
(* C3.  From one successful write to the next, whatever the outcome of     *)
(* the get_item read, the stored first_seen never becomes later and the    *)
(* stored last_seen never becomes earlier.                                 *)
(***************************************************************************)
C3_MonotonicBounds ==
    WroteOnStored =>
        /\ (Parses(Before.first_seen) /\ Parses(Stored.first_seen))
              => Instant(Stored.first_seen) <= Instant(Before.first_seen)
        /\ (Parses(Before.last_seen) /\ Parses(Stored.last_seen))
              => Instant(Stored.last_seen) >= Instant(Before.last_seen)

(***************************************************************************)
(* C4.  From one successful write to the next, whatever the outcome of     *)
(* the get_item read, the stored total_hits never decreases and is never   *)
(* reset to the incoming observation's count alone.                        *)
(***************************************************************************)
C4_HitsNeverReset ==
    WroteOnStored =>
        /\ Stored.total_hits >= Before.total_hits
        /\ Before.total_hits > 0 => Stored.total_hits # Incoming.total_hits

(***************************************************************************)
(* C5.  After a failure-free sequence of merges of observations with       *)
(* parseable bounds, the stored first_seen is the minimum of the           *)
(* contributing first_seen and the stored last_seen the maximum of the     *)
(* contributing last_seen.                                                 *)
(***************************************************************************)
C5_MinMaxOfContributions ==
    \A k \in DOMAIN table :
        (contrib[k].reads_ok /\ contrib[k].parseable) =>
            /\ Parses(table[k].first_seen)
            /\ Parses(table[k].last_seen)
            /\ Instant(table[k].first_seen) = contrib[k].first
            /\ Instant(table[k].last_seen) = contrib[k].last

\* an observation that begins before, and ends before, the stored
\* aggregate: the minimum is the incoming bound, the maximum the stored one
C5_Witness ==
    /\ WroteOnStored
    /\ contrib[Get(last).key].reads_ok /\ contrib[Get(last).key].parseable
    /\ Instant(Incoming.first_seen) < Instant(Before.first_seen)
    /\ Instant(Incoming.last_seen) < Instant(Before.last_seen)
    /\ Instant(Stored.first_seen) = Instant(Incoming.first_seen)
    /\ Instant(Stored.last_seen) = Instant(Before.last_seen)

(***************************************************************************)
(* C6.  Merging the same observation a second time leaves every            *)
(* multi-valued attribute of the aggregate as it is after merging it once. *)
(***************************************************************************)
C6_IdempotentSets ==
    WroteOnStored =>
        \A read_ok \in BOOLEAN, c \in ClockReadings :
            LET twice == written_table(table, Incoming, read_ok, c[1], c[2])
            IN  twice[Get(last).key].attrs = Stored.attrs

\* the first merge changed the stored set
C6_Witness ==
    /\ WroteOnStored
    /\ Before.attrs["src_ips"] = {"A", "B"}
    /\ Incoming.attrs["src_ips"] = {"B", "C"}
    /\ Stored.attrs # Before.attrs

(***************************************************************************)
(* C7.  When an observation is merged for an identity with no existing     *)
(* aggregate, the stored first_seen and last_seen equal the observation's  *)
(* own bounds when these parse, and the current time when the bound is     *)
(* empty or does not parse.                                                *)
(***************************************************************************)
\* s is datetime.now().isoformat() + 'Z' as read during the iteration
IsNowString(s) == s \in {now_string(c) : c \in (now - 1)..now}

C7_NewIdentityBounds ==
    (Wrote /\ Get(last).read_ok /\ Get(last).existing = None) =>
        /\ IF Parses(Incoming.first_seen)
           THEN Stored.first_seen = Incoming.first_seen
           ELSE IsNowString(Stored.first_seen)
        /\ IF Parses(Incoming.last_seen)
           THEN Stored.last_seen = Incoming.last_seen
           ELSE IsNowString(Stored.last_seen)

(***************************************************************************)
(* C8.  After every write whose merged bounds both resolve, days_seen is   *)
(* (stored last_seen - stored first_seen) in days rounded to 2 decimals;   *)
(* bounds 2024-01-15T00:00:00Z and 2024-01-20T00:00:00Z give 5.0.          *)
(***************************************************************************)
C8_DaysSeenFromMergedBounds ==
    /\ Wrote /\ Parses(Stored.first_seen) /\ Parses(Stored.last_seen) =>
          LET d == Instant(Stored.last_seen) - Instant(Stored.first_seen)
          IN  /\ TicksPerCentiDay * Stored.days_seen - 1 <= d
              /\ d <= TicksPerCentiDay * Stored.days_seen + 1
    /\ days_between(Get(parse_iso_timestamp(ZStamp(14))),
                    Get(parse_iso_timestamp(ZStamp(19)))) = 500

\* existing [2024-01-01, 2024-01-10] merged with incoming
\* [2024-01-05, 2024-01-15] gives 14.0
C8_Witness ==
    /\ WroteOnStored
    /\ Get(last).read_ok
    /\ Before.first_seen = ZStamp(0) /\ Before.last_seen = ZStamp(9)
    /\ Incoming.first_seen = ZStamp(4) /\ Incoming.last_seen = ZStamp(14)
    /\ Stored.days_seen = 1400

(***************************************************************************)
(* C9.  A row whose indicator or indicator_type is empty is dropped: the   *)
(* iteration issues no get_item and no update_item, raises nothing,        *)
(* leaves the store unchanged, and the loop goes on.                       *)
(***************************************************************************)
C9_MalformedRowDropped ==
    [][ (pc = "loop" /\ IsSome(last')
         /\ (Get(last').item.indicator = ""
             \/ Get(last').item.indicator_type = ""))
        => /\ table' = table
           /\ Get(last').requests = << >>
           /\ pc' = "iterated" ]_vars

\* a malformed row was dropped after a row of the same call was written
C9_Witness ==
    /\ IsSome(last)
    /\ Get(last).kind = "skipped"
    /\ Incoming.indicator_type = ""
    /\ idx = 2 /\ ops = 2
    /\ DOMAIN table = {"ip#8.8.8.8"}

(***************************************************************************)
(* C10.  When update_item fails for one observation, the loop continues    *)
(* with the next observation of the batch.                                 *)
(***************************************************************************)
C10_WriteFailureContinues ==
    (IsSome(last) /\ Get(last).kind = "write_failed") => pc = "iterated"

(***************************************************************************)
(* C11.  When get_item fails, nothing is raised for it: the observation is *)
(* processed as if no aggregate existed for its identity (the write        *)
(* carries the observation's own total_hits and bounds, the clock standing *)
(* in for an empty bound) and the loop goes on.                            *)
(***************************************************************************)
C11_ReadFailureAsNew ==
    (IsSome(last) /\ Get(last).kind # "skipped" /\ ~Get(last).read_ok) =>
        /\ Get(last).existing = None
        /\ Get(last).kind = "raised" =>
               \A c \in ClockReadings :
                   merge(None, Incoming, c[1], c[2]).raised
        /\ Get(last).kind = "written" =>
               /\ pc = "iterated"
               /\ Stored.total_hits = Incoming.total_hits
               /\ IF Incoming.first_seen.k # "empty"
                  THEN Stored.first_seen = Incoming.first_seen
                  ELSE IsNowString(Stored.first_seen)
               /\ IF Incoming.last_seen.k # "empty"
                  THEN Stored.last_seen = Incoming.last_seen
                  ELSE IsNowString(Stored.last_seen)

\* a stored aggregate of 40 hits was not read; the observation's 2 hits and
\* its own bounds were written over it
C11_Witness ==
    /\ Wrote /\ ~Get(last).read_ok
    /\ IsSome(Get(last).before)
    /\ Before.total_hits = 40 /\ Stored.total_hits = 2
    /\ Incoming.first_seen = ZStamp(4) /\ Stored.first_seen = ZStamp(4)
    /\ Incoming.last_seen = ZStamp(14) /\ Stored.last_seen = ZStamp(14)
    /\ pc = "iterated"

(***************************************************************************)
(* C12.  The step in which export_to_dynamodb fails leaves the table as    *)
(* the earlier iterations wrote it: nothing is rolled back and nothing is  *)
(* written for the failing observation.                                    *)
(***************************************************************************)
C12_NoRollback ==
    [][ pc' = "raised" => table' = table ]_vars

\* the second observation of a call failed in update_item after the first
\* one was written
C12_Witness ==
    /\ pc = "raised"
    /\ idx = 2 /\ ops = 2
    /\ IsSome(last) /\ Get(last).kind = "write_failed"
    /\ Get(last).key = "ip#1.2.3.4"
    /\ DOMAIN table = {"ip#8.8.8.8"}
    /\ contrib["ip#8.8.8.8"].hits = 40

(***************************************************************************)
(* C13.  The master snapshot is refreshed at most once per calendar day:   *)
(* with S3 and DynamoDB configured and a non-empty table, a run in 'all'   *)
(* mode uploads nothing at its S3 step when an earlier run uploaded the    *)
(* master snapshot on the same calendar day.                               *)
(***************************************************************************)
C13_MasterOncePerDay ==
    [][ (/\ rpc = "s3" /\ fmt = "all"
         /\ cfg.s3 /\ cfg.dynamodb /\ table # << >>
         /\ master_csv_key \in DOMAIN s3
         /\ DateOf(s3[master_csv_key].last_modified) = DateOf(now))
        => s3_log' = s3_log ]_vars

(***************************************************************************)
(* C14.  No iteration of export_to_dynamodb ends in a raise because of     *)
(* what the observation or the stored aggregate holds: a first_seen or     *)
(* last_seen that does not parse, or a total_hits that is not a number, is *)
(* replaced by a default and the loop goes on.                             *)
(***************************************************************************)
C14_NoParseFailureRaised ==
    (/\ IsSome(last) /\ Get(last).kind # "skipped"
     /\ \/ ~Parses(Incoming.first_seen)
        \/ ~Parses(Incoming.last_seen)
        \/ Incoming.total_hits = NotNumeric)
    => Get(last).kind # "raised"

(***************************************************************************)
(* C15.  For two observations A and B of one identity and one starting     *)
(* table, applying A then B leaves the same total_hits, first_seen,        *)
(* last_seen and multi-valued attribute sets as applying B then A.         *)
(***************************************************************************)
C15_OrderIndependent ==
    \A A \in SetRows, B \in SetRows :
        (~Malformed(A) /\ ~Malformed(B) /\ KeyOf(A) = KeyOf(B)) =>
            LET ab == export_batch(table, <<A, B>>, now)[KeyOf(A)]
                ba == export_batch(table, <<B, A>>, now)[KeyOf(A)]
            IN  /\ ab.total_hits = ba.total_hits
                /\ ab.first_seen = ba.first_seen
                /\ ab.last_seen = ba.last_seen
                /\ ab.attrs = ba.attrs

(***************************************************************************)
(* C16.  Applying a batch a second time, with no failure, adds the         *)
(* total_hits of its observations once more: after the replay the stored   *)
(* total_hits of an identity is the value before the batch plus twice the  *)
(* batch's total_hits for that identity.                                   *)
(***************************************************************************)
\* total_hits the well-formed rows of batch carry for key k
RECURSIVE batch_hits(_, _)
batch_hits(batch, k) ==
    IF batch = << >> THEN 0
    ELSE (IF ~Malformed(Head(batch)) /\ KeyOf(Head(batch)) = k
          THEN Head(batch).total_hits ELSE 0) + batch_hits(Tail(batch), k)

stored_hits(tbl, k) == IF k \in DOMAIN tbl THEN tbl[k].total_hits ELSE 0

\* run_export is about to call export_to_dynamodb on data
C16_ReplayDoubleCounts ==
    (rpc = "dynamodb" /\ pc = "idle") =>
        LET once == export_batch(table, data, now)
            twice == export_batch(once, data, now)
        IN  \A k \in Keys :
                stored_hits(twice, k) =
                    stored_hits(table, k) + 2 * batch_hits(data, k)

\* the table held what an export of [SeedRow] had written, 40 hits, and a
\* run whose search returned [SeedRow] again made it 80
C16_Witness ==
    /\ rpc = "s3"
    /\ data = <<SeedRow>>
    /\ contrib[KeyOf(SeedRow)].reads_ok
    /\ contrib[KeyOf(SeedRow)].hits = 80
    /\ table[KeyOf(SeedRow)].total_hits = 80

(***************************************************************************)
(* C17.  Every read and write for an observation goes to the key           *)
(* indicator_type + "#" + indicator, so the table holds at most one        *)
(* aggregate per identity, stored under that key, and every observation    *)
(* written for an identity went into that aggregate.                       *)
(***************************************************************************)
C17_OneAggregatePerIdentity ==
    /\ \A k \in DOMAIN table :
           k = table[k].indicator_type \o "#" \o table[k].indicator
    /\ \A k1 \in DOMAIN table, k2 \in DOMAIN table :
           (/\ table[k1].indicator = table[k2].indicator
            /\ table[k1].indicator_type = table[k2].indicator_type)
           => k1 = k2
    /\ (IsSome(last) /\ Get(last).kind # "skipped") =>
           Get(last).key =
               Incoming.indicator_type \o "#" \o Incoming.indicator
    /\ Wrote =>
           /\ Stored.indicator = Incoming.indicator
           /\ Stored.indicator_type = Incoming.indicator_type
    /\ \A k \in Keys : contrib[k].hits > 0 => k \in DOMAIN table

\* a second observation of 8.8.8.8 was merged into the aggregate of the
\* first one, next to the aggregate of 1.2.3.4
C17_Witness ==
    /\ WroteOnRead
    /\ Get(last).key = "ip#8.8.8.8"
    /\ Incoming.indicator = "8.8.8.8" /\ Incoming.indicator_type = "ip"
    /\ DOMAIN table = {"ip#1.2.3.4", "ip#8.8.8.8"}
    /\ Stored.total_hits = Before.total_hits + Incoming.total_hits

(***************************************************************************)
(* C18.  No step of run_export or export_to_dynamodb, whatever its         *)
(* outcome, removes an identity from the table.                            *)
(***************************************************************************)
C18_NeverDeleted ==
    [][ DOMAIN table \subseteq DOMAIN table' ]_vars

\* the identity 1.2.3.4 was stored when a run began; the run merged a row
\* into it, failed in update_item on the row of 8.8.8.8 and ended with
\* status 1: 1.2.3.4 is still stored
C18_Witness ==
    /\ status = Ended(TRUE, "dynamodb")
    /\ runs = 1 /\ rpc = "none"
    /\ DOMAIN table = {"ip#1.2.3.4"}
    /\ contrib["ip#1.2.3.4"].hits = 80
    /\ contrib["ip#8.8.8.8"].hits = 0

(***************************************************************************)
(* C19.  The export step of a backend that is not configured is skipped:   *)
(* it writes nothing, raises nothing, and run_export goes on to the next   *)
(* step and ends with exit status 0.                                       *)
(***************************************************************************)
C19_UnconfiguredStoreSkipped ==
    [][ /\ ~cfg.dynamodb =>
              /\ table' = table
              /\ rpc = "dynamodb" => rpc' = "s3"
        /\ ~cfg.s3 =>
              /\ s3' = s3 /\ s3_log' = s3_log
              /\ rpc = "s3" => rpc' = "rds"
        /\ ~cfg.rds =>
              /\ rds' = rds
              /\ rpc = "rds" =>
                    (rpc' = "none" /\ status' = Some([exit |-> 0,
                                                       at |-> "rds"])) ]_vars

\* no backend is configured: a run whose search returned rows has gone
\* through its three steps and ended with status 0, the stores untouched
C19_Witness ==
    /\ ~cfg.dynamodb /\ ~cfg.s3 /\ ~cfg.rds
    /\ runs = 1 /\ rpc = "none"
    /\ status = Some([exit |-> 0, at |-> "rds"])
    /\ table = SeededTable /\ s3 = SeededBucket /\ rds = << >>
    /\ s3_log = << >>

(***************************************************************************)
(* C20.  When connect_splunk or the search raises, run_export ends before  *)
(* any write to DynamoDB, S3 or RDS, and main exits with a non-zero        *)
(* status.                                                                 *)
(***************************************************************************)
C20_SourceFailureAborts ==
    [][ (/\ runs' = runs + 1
         /\ IsSome(status') /\ Get(status').at = "source")
        => /\ table' = table /\ s3' = s3 /\ rds' = rds
           /\ s3_log' = s3_log
           /\ rpc' = "none"
           /\ Get(status').exit # 0 ]_vars

\* a run with every backend configured ended at the source with status 1
C20_Witness ==
    /\ cfg = FullConfig
    /\ runs = 1 /\ rpc = "none"
    /\ status = Some([exit |-> 1, at |-> "source"])
    /\ table = SeededTable /\ s3 = SeededBucket /\ rds = << >>
    /\ s3_log = << >>

(***************************************************************************)
(* C21.  The format of a run restricts the stores it writes: 'dynamodb'    *)
(* writes the table only, 'rds' the PostgreSQL table only, 's3' the bucket *)
(* only, under dated keys and leaving the master objects alone; every      *)
(* store outside the format is left unchanged by each step of the run.     *)
(***************************************************************************)
MasterKeys == {master_parquet_key, master_csv_key, master_json_key}

C21_FormatSelectsStores ==
    [][ rpc # "none" =>
          /\ fmt = "dynamodb" =>
                (s3' = s3 /\ s3_log' = s3_log /\ rds' = rds)
          /\ fmt = "rds" =>
                (table' = table /\ s3' = s3 /\ s3_log' = s3_log)
          /\ fmt = "s3" =>
                /\ table' = table /\ rds' = rds
                /\ DOMAIN s3 \subseteq DOMAIN s3'
                /\ (DOMAIN s3' \ DOMAIN s3) \cap MasterKeys = {}
                /\ \A k \in MasterKeys \cap DOMAIN s3 : s3'[k] = s3[k]
                /\ \A i \in (Len(s3_log) + 1)..Len(s3_log') :
                      s3_log'[i].key \in {dated_key(now, "csv"),
                                          dated_key(now, "json")} ]_vars

\* a run of format 's3' uploaded its two dated objects although the bucket
\* holds a master.parquet of the same day, and left the table and the
\* PostgreSQL table as they were
C21_Witness ==
    /\ rpc = "rds" /\ fmt = "s3"
    /\ cfg = FullConfig
    /\ master_parquet_key \in DOMAIN s3
    /\ DateOf(s3[master_parquet_key].last_modified) = DateOf(now)
    /\ Len(s3_log) = 2
    /\ s3_log[1].key = dated_key(now, "csv")
    /\ s3_log[2].key = dated_key(now, "json")
    /\ table = SeededTable /\ rds = << >>


\* rows is a rendering (CSV when csv, else JSON) of exactly one record per
\* item of tbl, with the item's counters, bounds and multi-valued sets
SnapshotOf(rows, tbl, csv) ==
    /\ Len(rows) = Cardinality(DOMAIN tbl)
    /\ \A k \in DOMAIN tbl :
          \E i \in 1..Len(rows) :
              /\ rows[i].indicator = tbl[k].indicator
              /\ rows[i].indicator_type = tbl[k].indicator_type
              /\ rows[i].first_seen = tbl[k].first_seen
              /\ rows[i].last_seen = tbl[k].last_seen
              /\ rows[i].total_hits = IF csv THEN ToString(tbl[k].total_hits)
                                      ELSE tbl[k].total_hits
              /\ \A a \in MultiValued :
                    rows[i].attrs[a] = IF csv THEN join(tbl[k].attrs[a])
                                       ELSE tbl[k].attrs[a]

\* C22: whenever the S3 step of an 'all' run uploads a master snapshot, the
\* step comes after the run's DynamoDB writes, leaves the table alone, and
\* every uploaded file holds exactly one record per item stored in the table
\* at that moment, with the item's total_hits, first_seen, last_seen and
\* multi-valued sets.
C22_MasterSnapshotIsFullScan ==
    [][ (rpc = "s3" /\ fmt = "all" /\ s3_log' # s3_log) =>
          /\ pc = "idle" /\ table' = table
          /\ Len(s3_log') > Len(s3_log)
          /\ \A i \in (Len(s3_log) + 1)..Len(s3_log') :
                /\ s3_log'[i].key \in {master_csv_key, master_json_key}
                /\ SnapshotOf(s3'[s3_log'[i].key].body.rows, table,
                              s3_log'[i].key = master_csv_key) ]_vars

\* C22 witness: an 'all' run that created 8.8.8.8 in the table has uploaded
\* both master files, and they hold the seeded item and the new one.
C22_Witness ==
    /\ rpc = "rds" /\ fmt = "all"
    /\ Len(s3_log) = 2 /\ s3_log[2].key = master_json_key
    /\ "ip#8.8.8.8" \in DOMAIN table /\ contrib["ip#8.8.8.8"].hits = 2
    /\ Cardinality(DOMAIN table) = 2
    /\ Len(s3[master_json_key].body.rows) = 2
    /\ \E i \in 1..2 :
          /\ s3[master_json_key].body.rows[i].indicator = "8.8.8.8"
          /\ s3[master_json_key].body.rows[i].total_hits = 2
          /\ s3[master_csv_key].body.rows[i].total_hits = "2"

\* the CSV key and the JSON key export_to_s3 uploads together
CsvJsonPairs ==
    {<<master_csv_key, master_json_key>>} \cup
    {<<dated_key(c, "csv"), dated_key(c, "json")>> :
        c \in {NowStart, NowStart + TicksPerDay}}

\* C23: export_to_s3 with a client and data uploads the CSV file and then the
\* JSON file of the same records; with empty data it uploads nothing; a
\* failure of the JSON upload leaves the CSV object in place.
C23_CsvThenJson ==
    /\ \A i \in 1..Len(s3_log) : s3_log[i].key \in DOMAIN s3
    /\ \A i \in 1..Len(s3_log) : \A p \in CsvJsonPairs :
          s3_log[i].key = p[2] =>
              /\ i > 1 /\ s3_log[i - 1].key = p[1]
              /\ s3_log[i - 1].day = s3_log[i].day
    /\ \A p \in CsvJsonPairs : p[2] \in DOMAIN s3 => p[1] \in DOMAIN s3
    /\ (rpc = "s3" /\ fmt = "s3") =>
          \A master_file \in BOOLEAN :
              LET csv_key == IF master_file THEN master_csv_key
                             ELSE dated_key(now, "csv")
                  json_key == IF master_file THEN master_json_key
                              ELSE dated_key(now, "json")
                  both == export_to_s3(TRUE, << >>, << >>, data, master_file,
                                       TRUE, TRUE, now)
                  first == export_to_s3(TRUE, << >>, << >>, data, master_file,
                                        TRUE, FALSE, now)
                  empty == export_to_s3(TRUE, s3, s3_log, << >>, master_file,
                                        TRUE, TRUE, now)
              IN  /\ ~both.raised
                  /\ both.log = <<[key |-> csv_key, day |-> DateOf(now)],
                                  [key |-> json_key, day |-> DateOf(now)]>>
                  /\ DOMAIN both.bucket = {csv_key, json_key}
                  /\ both.bucket[json_key].body.rows = data
                  /\ Len(both.bucket[csv_key].body.rows) = Len(data)
                  /\ \A i \in 1..Len(data) :
                        both.bucket[csv_key].body.rows[i] = csv_row(data[i])
                  /\ first.raised
                  /\ DOMAIN first.bucket = {csv_key}
                  /\ first.bucket[csv_key] = both.bucket[csv_key]
                  /\ ~empty.raised /\ empty.bucket = s3 /\ empty.log = s3_log

\* C23 witness: a run ended in the S3 step after the master CSV file was
\* uploaded and the JSON upload failed: the CSV object is in the bucket, no
\* JSON object is.
C23_Witness ==
    /\ status = Ended(TRUE, "s3")
    /\ Len(s3_log) = 1 /\ s3_log[1].key = master_csv_key
    /\ master_csv_key \in DOMAIN s3 /\ master_json_key \notin DOMAIN s3
    /\ s3[master_csv_key].body.rows # << >>



\* C24: a multi-valued attribute that is absent from, or empty on, the
\* incoming observation is left untouched on the stored aggregate, whatever
\* the outcome of the get_item read.
C24_AbsentAttributeUntouched ==
    WroteOnStored =>
        \A a \in MultiValued :
            Incoming.attrs[a] = {} => Stored.attrs[a] = Before.attrs[a]

\* C24 witness: an observation without src_ips was written over an
\* aggregate holding {A, B}, which still holds them.
C24_Witness ==
    /\ WroteOnStored
    /\ Incoming.attrs["src_ips"] = {}
    /\ Before.attrs["src_ips"] = {"A", "B"}
    /\ Stored.attrs["src_ips"] = {"A", "B"}
    /\ Stored.total_hits > Before.total_hits



\* C25: when neither the aggregate read by get_item nor the incoming
\* observation has a first_seen or last_seen that parses, the stored
\* days_seen is the aggregate's previous days_seen, or with no aggregate the
\* observation's own days_seen (0 when it declares none).
C25_DaysSeenRetained ==
    (/\ Wrote
     /\ ~Parses(Incoming.first_seen) /\ ~Parses(Incoming.last_seen)
     /\ IsSome(Get(last).existing) =>
           /\ ~Parses(Get(Get(last).existing).first_seen)
           /\ ~Parses(Get(Get(last).existing).last_seen))
    => Stored.days_seen = IF IsSome(Get(last).existing)
                          THEN Get(Get(last).existing).days_seen
                          ELSE Incoming.days_seen



\* C26: where an 'all' run with an S3 client asks
\* _should_update_s3_master_file, the answer is False exactly when the
\* head_object check succeeds on an existing master.parquet last modified
\* today; it is True when the object is absent, was last modified on another
\* day, or the check fails.
C26_ThrottleDecision ==
    (rpc = "s3" /\ fmt = "all" /\ cfg.s3) =>
        \A head_ok \in BOOLEAN :
            LET answer == should_update_s3_master_file(cfg.s3, s3, head_ok, now)
                exists == master_parquet_key \in DOMAIN s3
                today == /\ exists
                         /\ DateOf(s3[master_parquet_key].last_modified)
                               = DateOf(now)
            IN  /\ ~answer <=> (head_ok /\ today)
                /\ ~exists => answer
                /\ (exists /\ ~today) => answer
                /\ ~head_ok => answer

\* C26 witness: an 'all' run with all stores configured went through its S3
\* step while master.parquet was last modified today, and uploaded nothing
\* although the table holds an aggregate.
C26_Witness ==
    /\ rpc = "rds" /\ fmt = "all" /\ cfg = FullConfig
    /\ master_parquet_key \in DOMAIN s3
    /\ DateOf(s3[master_parquet_key].last_modified) = DateOf(now)
    /\ s3_log = << >>
    /\ DOMAIN table # {}



\* C30: the key is built without escaping '#': the identities
\* (indicator_type 'a', indicator 'b#c') and ('a#b', 'c') have the same key,
\* and a write of one over the aggregate of the other merges into that one
\* aggregate, whose indicator and indicator_type are those of the
\* observation written last.
C30_SeparatorCollision ==
    /\ composite_key("a", "b#c") = composite_key("a#b", "c")
    /\ \A r1 \in CollideRows, r2 \in CollideRows : KeyOf(r1) = KeyOf(r2)
    /\ Cardinality({k \in DOMAIN table : k \in {KeyOf(r) : r \in CollideRows}})
          <= 1
    /\ Wrote =>
          /\ Stored.indicator = Incoming.indicator
          /\ Stored.indicator_type = Incoming.indicator_type
    /\ WroteOnRead =>
          Stored.total_hits = Before.total_hits + Incoming.total_hits

\* C30 witness: ('a#b', 'c') with 2 hits was written over the aggregate of
\* ('a', 'b#c') with 40 hits: one aggregate, named ('a#b', 'c'), 42 hits.
C30_Witness ==
    /\ WroteOnRead
    /\ Before.indicator_type = "a" /\ Before.indicator = "b#c"
    /\ Before.total_hits = 40
    /\ Incoming.indicator_type = "a#b" /\ Incoming.indicator = "c"
    /\ Incoming.total_hits = 2
    /\ Stored.indicator_type = "a#b" /\ Stored.indicator = "c"
    /\ Stored.total_hits = 42
    /\ DOMAIN table = {"a#b#c"}



\* C28: when every batch has been applied exactly once to both stores,
\* without failure and with parseable timestamps, the stores hold the same
\* identities and for each the PostgreSQL row and the DynamoDB aggregate
\* agree on total_hits, first_seen and last_seen.
C28_StoresAgree ==
    /\ DOMAIN rds = DOMAIN table
    /\ \A k \in DOMAIN table :
          /\ rds[k].total_hits = table[k].total_hits
          /\ Parses(table[k].first_seen) /\ Parses(table[k].last_seen)
          /\ rds[k].first_seen = Some(Instant(table[k].first_seen))
          /\ rds[k].last_seen = Some(Instant(table[k].last_seen))

\* C28 witness: two batches of one row each for 1.2.3.4, the second with
\* the earlier first_seen and the earlier last_seen: both stores hold 42
\* hits, the bounds of the second and of the first row.
C28_Witness ==
    /\ runs = 2 /\ ops = 2
    /\ data = <<Row("1.2.3.4", "ip", ZStamp(0), ZStamp(9), 2, {})>>
    /\ DOMAIN table = {"ip#1.2.3.4"}
    /\ table["ip#1.2.3.4"].total_hits = 42
    /\ rds["ip#1.2.3.4"].total_hits = 42
    /\ rds["ip#1.2.3.4"].first_seen = Some(ZStamp(0).t)
    /\ rds["ip#1.2.3.4"].last_seen = Some(ZStamp(14).t)
    /\ Instant(table["ip#1.2.3.4"].first_seen) = ZStamp(0).t
    /\ Instant(table["ip#1.2.3.4"].last_seen) = ZStamp(14).t



\* C27: nothing ties the update_item of an iteration to the get_item before
\* it: when two runs read the same stored state of one identity before
\* either writes, and both write, the later write overwrites the earlier
\* and the stored total_hits lacks the hits of the earlier writer.
C27_LostUpdate ==
    \A w1 \in Workers, w2 \in Workers :
        (/\ w1 # w2
         /\ workers[w1].pc = "written" /\ workers[w2].pc = "written"
         /\ KeyOf(Get(workers[w1].item)) = KeyOf(Get(workers[w2].item))
         /\ workers[w1].existing = workers[w2].existing
         /\ workers[w1].read_at < workers[w1].wrote_at
         /\ workers[w2].read_at < workers[w1].wrote_at
         /\ workers[w1].wrote_at < workers[w2].wrote_at)
        => LET key == KeyOf(Get(workers[w2].item))
               prior == IF IsSome(workers[w2].existing)
                        THEN Get(workers[w2].existing).total_hits ELSE 0
           IN  /\ table[key].total_hits
                     = prior + Get(workers[w2].item).total_hits
               /\ table[key].total_hits
                     < prior + Get(workers[w1].item).total_hits
                             + Get(workers[w2].item).total_hits

\* C27 witness: both runs read the seeded aggregate of 1.2.3.4 (40 hits),
\* run 1 wrote 40 more, then run 2 wrote 2 more: 42 are stored, not 82.
C27_Witness ==
    /\ workers[1].pc = "written" /\ workers[2].pc = "written"
    /\ workers[1].existing = Some(SeededTable["ip#1.2.3.4"])
    /\ workers[2].existing = Some(SeededTable["ip#1.2.3.4"])
    /\ Get(workers[1].item).total_hits = 40
    /\ Get(workers[2].item).total_hits = 2
    /\ Get(workers[1].item).indicator = "1.2.3.4"
    /\ Get(workers[2].item).indicator = "1.2.3.4"
    /\ workers[2].read_at < workers[1].wrote_at
    /\ workers[1].wrote_at < workers[2].wrote_at
    /\ table["ip#1.2.3.4"].total_hits = 42

\* the keys of the records of merged_data, in order
ScannedKeys ==
    [i \in 1..Len(scan.merged_data) |->
        composite_key(scan.merged_data[i].indicator_type,
                      scan.merged_data[i].indicator)]

ScanInv ==
    /\ scan.pc \in {"scanning", "returned"} =>
          /\ \A i \in 1..Len(ScannedKeys), j \in 1..Len(ScannedKeys) :
                i # j => ScannedKeys[i] # ScannedKeys[j]
          /\ ScannedKeys
                = SubSeq(ScanOrder(DOMAIN table), 1, Len(ScannedKeys))
          /\ scan.pages = 0 =>
                (scan.last_evaluated_key = None /\ scan.merged_data = << >>)
    /\ scan.pc = "scanning" /\ scan.pages > 0 =>
          scan.last_evaluated_key = Some(ScannedKeys[Len(ScannedKeys)])
    /\ scan.pc = "returned" =>
          /\ scan.last_evaluated_key = None
          /\ SnapshotOf(scan.merged_data, table, FALSE)
          /\ scan.merged_data
                = get_merged_data_from_dynamodb(TRUE, table, TRUE, now)

\* C29: the scan starts without a cursor, passes the LastEvaluatedKey of
\* each page as the start of the next, and on an unmutated table returns
\* every stored aggregate exactly once; the loop ends when a page carries no
\* cursor, which happens after finitely many pages.
C29_ScanVisitsEachOnce ==
    /\ []ScanInv
    /\ (scan.pc = "scanning") ~> (scan.pc \in {"returned", "raised"})

\* C29 witness: a table of three aggregates was returned in full after
\* three pages, the first two carrying a cursor.
C29_Witness ==
    /\ scan.pc = "returned"
    /\ Cardinality(DOMAIN table) = 3
    /\ Len(scan.merged_data) = 3
    /\ scan.pages = 3



\* the bounds of an observation are ordered, or one or both are empty
OrderedOrEmpty(item) ==
    \/ item.first_seen = EmptyStr
    \/ item.last_seen = EmptyStr
    \/ /\ Parses(item.first_seen) /\ Parses(item.last_seen)
       /\ Instant(item.first_seen) <= Instant(item.last_seen)

\* C31: an aggregate written for an identity that had none, from an
\* observation whose bounds are ordered or of which one or both are empty,
\* has first_seen <= last_seen and days_seen >= 0 (the sequences of one
\* merge among those the claim speaks of).
C31_BoundsOrdered ==
    (Wrote /\ ~IsSome(Get(last).before) /\ OrderedOrEmpty(Incoming)) =>
        /\ (Parses(Stored.first_seen) /\ Parses(Stored.last_seen)) =>
              Instant(Stored.first_seen) <= Instant(Stored.last_seen)
        /\ Stored.days_seen >= 0



\* C32: in an 'all' run, while export_to_dynamodb is running no other store
\* changes, and once it has raised the run ends there: the next step leaves
\* run_export with the failure, with the bucket and the PostgreSQL table as
\* they were and with the DynamoDB table keeping the writes of the rows
\* before the failure.
C32_DynamoDBFailureEndsRun ==
    [][ (rpc = "dynamodb" /\ fmt = "all") =>
          /\ s3' = s3 /\ s3_log' = s3_log /\ rds' = rds
          /\ pc = "raised" =>
                /\ rpc' = "none"
                /\ status' = Ended(TRUE, "dynamodb")
                /\ table' = table ]_vars

\* C32 witness: in an 'all' run of two rows the first row was written (the
\* aggregate of 1.2.3.4 went from 40 to 80 hits), the update_item of the
\* second failed, and the PostgreSQL table and the bucket are still empty.
C32_Witness ==
    /\ rpc = "dynamodb" /\ fmt = "all" /\ pc = "raised"
    /\ cfg = FullConfig
    /\ idx = 2 /\ Get(last).kind = "write_failed"
    /\ DOMAIN table = {"ip#1.2.3.4"}
    /\ table["ip#1.2.3.4"].total_hits = 80
    /\ rds = << >> /\ s3 = << >> /\ s3_log = << >>



\* the statement of some row of rows fails
SomeUpsertFails(rows) ==
    \E i \in 1..Len(rows) : ~Malformed(rows[i]) /\ rds_raises(rows[i])

\* C33: export_to_rds_postgres applies a batch all or nothing: when the
\* upsert of any record of the batch fails the call raises and the table
\* is as it was before the batch, whatever rows preceded the failing one;
\* when the call returns, every well-formed row of the batch was upserted.
C33_RdsAllOrNothing ==
    [][ runs' = runs + 1 =>
          /\ SomeUpsertFails(data') =>
                (status' = Ended(TRUE, "rds") /\ rds' = rds)
          /\ status' = Ended(TRUE, "rds") => rds' = rds
          /\ status' = Ended(FALSE, "rds") =>
                rds' = rds_upsert_all(rds, data', now) ]_vars

\* C33 witness: a batch of a good row for 8.8.8.8 followed by a row whose
\* total_hits is not a number was exported: the call raised, PostgreSQL has
\* no row of the batch, DynamoDB has the aggregate of 8.8.8.8.
C33_Witness ==
    /\ status = Ended(TRUE, "rds")
    /\ runs = 1
    /\ Len(data) = 2
    /\ data[1].indicator = "8.8.8.8" /\ data[1].total_hits = 40
    /\ data[2].total_hits = NotNumeric
    /\ rds = << >>
    /\ DOMAIN table = {"ip#8.8.8.8"}
    /\ table["ip#8.8.8.8"].total_hits = 40



\* C34: a failed page request ends the scan with an empty list, whatever
\* pages were read before; the S3 step of the run then uploads nothing and
\* run_export goes on to the RDS step without a failure; a master file is
\* only ever uploaded from a scan that returned, and holds the whole table.
C34_FailedScanUploadsNothing ==
    [][ /\ scan'.pc = "raised" => scan'.merged_data = << >>
        /\ (rpc = "s3" /\ scan.pc = "raised" /\ rpc' # "s3") =>
              /\ s3' = s3 /\ s3_log' = s3_log
              /\ rpc' = "rds" /\ status' = status /\ status = None
        /\ s3_log' # s3_log =>
              /\ scan.pc = "returned"
              /\ SnapshotOf(s3'[master_csv_key].body.rows, table, TRUE) ]_vars

\* C34 witness: the scan of a table of two aggregates read one page and
\* failed on the next request; the run is at its RDS step with the bucket
\* still empty and no failure recorded.
C34_Witness ==
    /\ scan.pc = "raised" /\ scan.pages = 1
    /\ scan.last_evaluated_key # None
    /\ scan.merged_data = << >>
    /\ Cardinality(DOMAIN table) = 2
    /\ rpc = "rds" /\ status = None
    /\ s3 = << >> /\ s3_log = << >>



\* C35: when the search of a run returns no rows, run_export returns
\* normally at once: the run ends without failure and without entering any
\* export step, and the DynamoDB table, the bucket, the upload log and the
\* PostgreSQL table are as they were.
C35_EmptySearchTouchesNothing ==
    [][ (runs' = runs + 1 /\ data' = << >>
            /\ status' # Ended(TRUE, "source")) =>
          /\ status' = Ended(FALSE, "search")
          /\ rpc' = "none"
          /\ table' = table /\ s3' = s3 /\ s3_log' = s3_log /\ rds' = rds
          /\ pc' = pc /\ last' = last /\ ops' = ops ]_vars

\* C35 witness: a run with every store configured, on a seeded table and a
\* bucket whose master.parquet is of the day before, found no rows: it
\* ended normally and the stores are as they were.
C35_Witness ==
    /\ status = Ended(FALSE, "search")
    /\ runs = 1 /\ rpc = "none" /\ cfg = FullConfig
    /\ now = NowStart + TicksPerDay
    /\ table = SeededTable /\ s3 = LegacyBucket
    /\ rds = << >> /\ s3_log = << >> /\ ops = 0



\* C36: lambda_handler never lets a failure of the export escape: once
\* run_export has ended the invocation ends with a response, of statusCode
\* 200 exactly when run_export returned and of statusCode 500 carrying the
\* error text when it raised; an invocation ends with an exception only
\* when no exporter was built and run_export was never called.
C36_HandlerAnswersEveryExportOutcome ==
    [][ /\ (rpc = "none" /\ IsSome(status) /\ status' # status) =>
              /\ invocation'.pc = "returned"
              /\ invocation'.statusCode \in {200, 500}
              /\ invocation'.statusCode = 200 <=> Get(status).exit = 0
              /\ invocation'.statusCode = 500 =>
                    invocation'.body = Get(status).at
        /\ (invocation' # invocation /\ invocation'.pc = "raised") =>
              /\ rpc = "none" /\ status = None
              /\ rpc' = "none" /\ status' = None
              /\ table' = table /\ s3' = s3 /\ rds' = rds ]_vars

\* C36 witness: run_export raised in export_to_dynamodb after writing the
\* first row of its batch, and the handler returned statusCode 500 with
\* that error.
C36_Witness ==
    /\ invocation = [pc |-> "returned", statusCode |-> 500,
                     body |-> "dynamodb"]
    /\ status = None /\ rpc = "none" /\ runs = 1
    /\ DOMAIN table = {"ip#1.2.3.4"}
    /\ table["ip#1.2.3.4"].total_hits = 80


====
